---- MODULE Spec2Model ----
(***************************************************************************)
(* A model of the multi-hop question answering pipeline of                 *)
(* zolawuzhigang/mos: planner, hybrid retriever, graph builder, reasoner,  *)
(* validator, answer generator and the MultiHopAgent that drives them.     *)
(*                                                                         *)
(* Conventions.                                                            *)
(*  - A Python str that the code inspects character by character (a        *)
(*    question) is a sequence of one-character strings; a document is a    *)
(*    sequence of words (str.split() of the text).                         *)
(*  - A Python float is an exact rational [num, den] (den > 0).  The code  *)
(*    computes in IEEE doubles; the inputs of the model are chosen so that *)
(*    no value lies on a rounding tie.                                     *)
(*  - `last` holds the last completed public call: its operation, its      *)
(*    arguments and either the value returned or the exception raised.     *)
(*  - Wall-clock fields (processing_time, generated_at) are left out.      *)
(***************************************************************************)
EXTENDS Integers, Sequences, FiniteSets, TLC

\* ------------------------------------------------------------------ bounds
\* Longest document list handed to initialize / initialize_system.
MaxDocs == 2
\* Most calls of the agent's public methods in one behaviour.
MaxCalls == 2
\* Longest reasoning chain handed to validate_reasoning_chain.
MaxChain == 2
\* Most store_triples / build_graph_from_documents calls in one behaviour.
MaxStores == 2

VARIABLES
    system_initialized,  \* MultiHopAgent.system_initialized
    config,              \* MultiHopAgent.config (the keys the pipeline reads)
    documents,           \* TraditionalRetriever.documents / BM25Retriever.documents
    index_built,         \* BM25Retriever.index_built
    model_loaded,        \* ContrieverRetriever.model_loaded
    graph_initialized,   \* GraphBuilder.graph_initialized
    graph,               \* the graph store: the nodes and edges the statements issued left
    issued,              \* how many times store_triples has issued each triple's statement
    graph_connected,     \* Reasoner.graph_connected
    executor_initialized,\* Executor.executor_initialized
    task_history,        \* PlannerAgent.task_history
    validation_history,  \* Validator.validation_history
    pc,                  \* position of the running call (process_question, call_api), or "idle"
    frame,               \* local variables of the running call
    calls,               \* number of public calls made so far (bounds the behaviour)
    input,               \* the arguments drawn for the call of a single-call behaviour
    last,                \* the last completed public call and its outcome
    batch,               \* the running process_questions_batch call: its argument and results
    history,             \* MultiHopConsole.history
    history_file         \* the content of console_history.json, None while there is no file

vars == << system_initialized, config, documents, index_built, model_loaded,
           graph_initialized, graph, issued, graph_connected,
           executor_initialized, task_history, validation_history, pc, frame,
           calls, input, last, batch, history, history_file >>

\* ------------------------------------------------------------- rationals
RECURSIVE GCD(_, _)
GCD(a, b) == IF b = 0 THEN a ELSE GCD(b, a % b)
\* The rational n/d (n >= 0, d > 0) in lowest terms: equal values are equal records.
Rat(n, d) == LET g == GCD(n, d) IN [num |-> n \div g, den |-> d \div g]
Milli(m) == Rat(m, 1000)
RatGT(a, b) == a.num * b.den > b.num * a.den
RatMul(a, b) == Rat(a.num * b.num, a.den * b.den)
RatAdd(a, b) == Rat(a.num * b.den + b.num * a.den, a.den * b.den)
RatDivInt(a, n) == Rat(a.num, a.den * n)
Zero == Rat(0, 1)

\* round(x, 3): the nearest multiple of 0.001, a tie going to the even one.
Round3(x) ==
    LET n == x.num * 1000
        q == n \div x.den
        r == n % x.den
    IN  Milli(IF 2 * r > x.den THEN q + 1
              ELSE IF 2 * r < x.den THEN q
              ELSE IF q % 2 = 0 THEN q ELSE q + 1)

\* ---------------------------------------------------------------- strings
LowerChar(c) ==
    CASE c = "W" -> "w" [] c = "H" -> "h" [] c = "O" -> "o" [] c = "A" -> "a"
      [] c = "T" -> "t" [] c = "Y" -> "y" [] c = "S" -> "s" [] c = "N" -> "n"
      [] c = "C" -> "c" [] c = "I" -> "i" [] c = "E" -> "e" [] c = "D" -> "d"
      [] OTHER -> c
\* str.lower()
Lower(s) == [i \in 1..Len(s) |-> LowerChar(s[i])]
\* sub in s
Contains(sub, s) ==
    \E i \in 0..(Len(s) - Len(sub)) : SubSeq(s, i + 1, i + Len(sub)) = sub

\* An optional argument: None, or a value.
None == [some |-> FALSE, value |-> << >>]
Some(x) == [some |-> TRUE, value |-> x]

\* ---------------------------------------------------------------- planner
\* An extraction that finds an entity in every question.
ExtractOneEntity(question) == <<"Albert Einstein">>
extract_entities(question) == << >>
extract_relations(question) == << >>

\* A classification that tests "what" before "who".
ClassifyWhatFirst(question) ==
    IF Contains(<<"w", "h", "a", "t">>, Lower(question)) THEN "fact_retrieval"
    ELSE IF Contains(<<"w", "h", "o">>, Lower(question)) THEN "entity_identification"
    ELSE IF Contains(<<"h", "o", "w">>, Lower(question))
            \/ Contains(<<"w", "h", "y">>, Lower(question)) THEN "causal_reasoning"
    ELSE "general"

classify_question_type(question) ==
    IF Contains(<<"w", "h", "o">>, Lower(question)) THEN "entity_identification"
    ELSE IF Contains(<<"w", "h", "a", "t">>, Lower(question)) THEN "fact_retrieval"
    ELSE IF Contains(<<"h", "o", "w">>, Lower(question))
            \/ Contains(<<"w", "h", "y">>, Lower(question)) THEN "causal_reasoning"
    ELSE "general"

parse_question(question) ==
    [ original_question |-> question,
      entities |-> extract_entities(question),
      relations |-> extract_relations(question),
      question_type |-> classify_question_type(question) ]

\* A sub-task; depends_on is << >> when the dict has no "depends_on" key.
SubTask(id, type, query, description, deps) ==
    [ task_id |-> id, task_type |-> type, query |-> query,
      description |-> description, depends_on |-> deps ]

\* A decomposition whose second sub-task carries no dependency.
SubTasksWithoutDependency(parsed) ==
    IF parsed.question_type \in {"entity_identification", "fact_retrieval"} THEN
        << SubTask(1, "initial_search", parsed.original_question, "first", << >>),
           SubTask(2, "verification_search", <<"second">>, "second", << >>) >>
    ELSE
        << SubTask(1, "comprehensive_search", parsed.original_question,
                   "Comprehensive search for the question", << >>) >>

\* A decomposition that lists the dependent sub-task first.
SubTasksDependentFirst(parsed) ==
    IF parsed.question_type \in {"entity_identification", "fact_retrieval"} THEN
        << SubTask(2, "verification_search", <<"second">>, "second", <<1>>),
           SubTask(1, "initial_search", parsed.original_question, "first", << >>) >>
    ELSE
        << SubTask(1, "comprehensive_search", parsed.original_question,
                   "Comprehensive search for the question", << >>) >>

\* sub_tasks of decompose_task.
SubTasksOf(parsed) ==
    IF parsed.question_type = "entity_identification" THEN
        << SubTask(1, "entity_search", parsed.original_question,
                   "Find the main entity mentioned in the question", << >>),
           SubTask(2, "relation_search",
                   <<"What are the key facts about the entity found in task 1?">>,
                   "Find relationships and facts about the identified entity", <<1>>) >>
    ELSE IF parsed.question_type = "fact_retrieval" THEN
        << SubTask(1, "initial_search", parsed.original_question,
                   "Initial search for the main fact", << >>),
           SubTask(2, "verification_search",
                   <<"Verify the fact found in task 1 from multiple sources">>,
                   "Cross-verify the retrieved fact", <<1>>) >>
    ELSE
        << SubTask(1, "comprehensive_search", parsed.original_question,
                   "Comprehensive search for the question", << >>) >>

\* ---------------------------------------------------------------- documents
\* The document universe: word sequences.
DocEinstein == <<"Albert", "Einstein", "worked">>
DocCurie == <<"Marie", "Curie">>
DocPlain == <<"Ulm", "is", "old">>
DocPlainAlt == <<"Ulm", "was", "old">>
DocShort == <<"Ulm", "old">>
Docs == {DocEinstein, DocCurie, DocPlain, DocPlainAlt, DocShort}

\* hashlib.md5(doc.encode()).hexdigest()[:8]: 32 bits of a hash, equal for equal
\* documents and not injective; DocPlain and DocPlainAlt stand for two distinct
\* documents with the same 32-bit prefix.
DocId(doc) == IF doc = DocPlainAlt THEN <<"md5", DocPlain>> ELSE <<"md5", doc>>

\* The lists of at most n documents of a universe (duplicates allowed).
ListsOf(universe, n) == UNION {[1..k -> universe] : k \in 0..n}
DocLists(n) == ListsOf(Docs, n)

\* An exception object: its class and str(e).
Exc(type, msg) == [type |-> type, msg |-> msg]

Min(a, b) == IF a <= b THEN a ELSE b
Max(a, b) == IF a >= b THEN a ELSE b
\* s[:k] of a Python list, k of either sign.
Prefix(s, k) == SubSeq(s, 1, IF k >= 0 THEN Min(k, Len(s)) ELSE Max(Len(s) + k, 0))

\* ---------------------------------------------------------------- retriever
Result(doc, score, source) ==
    [ document |-> doc, score |-> score, source |-> source, doc_id |-> DocId(doc) ]

\* BM25Retriever.search on a built index: the first top_k documents, scored
\* 1.0 - i * 0.1 for i = 0, 1, ...  (the model keeps i < 10, scores >= 0).
bm25_search(docs, top_k) ==
    LET top == Prefix(docs, top_k)
    IN  [i \in 1..Len(top) |-> Result(top[i], Rat(10 - (i - 1), 10), "bm25")]

\* ContrieverRetriever.search with the model loaded: scored 0.9 - i * 0.1.
contriever_search(docs, top_k) ==
    LET top == Prefix(docs, top_k)
    IN  [i \in 1..Len(top) |-> Result(top[i], Rat(9 - (i - 1), 10), "contriever")]

\* The de-duplication loop of hybrid_search: keep the first result of each doc_id.
RECURSIVE DedupFrom(_, _)
DedupFrom(results, seen_docs) ==
    IF results = << >> THEN << >>
    ELSE IF Head(results).doc_id \in seen_docs
         THEN DedupFrom(Tail(results), seen_docs)
         ELSE <<Head(results)>>
              \o DedupFrom(Tail(results), seen_docs \cup {Head(results).doc_id})

\* A de-duplication that only drops a result equal in doc_id to its predecessor.
RECURSIVE DedupAdjacent(_)
DedupAdjacent(results) ==
    IF Len(results) <= 1 THEN results
    ELSE IF results[1].doc_id = results[2].doc_id
         THEN DedupAdjacent(Tail(results))
         ELSE <<Head(results)>> \o DedupAdjacent(Tail(results))

\* No de-duplication at all.
KeepAll(results) == results

DedupByDocId(results) == DedupFrom(results, {})

\* An insertion for an ascending sort: r goes before the first higher score.
RECURSIVE InsertAscending(_, _)
InsertAscending(sorted, r) ==
    IF sorted = << >> THEN <<r>>
    ELSE IF RatGT(Head(sorted).score, r.score) THEN <<r>> \o sorted
    ELSE <<Head(sorted)>> \o InsertAscending(Tail(sorted), r)

\* list.sort(key=score, reverse=True): stable, equal scores keep their order.
RECURSIVE InsertByScore(_, _)
InsertByScore(sorted, r) ==
    IF sorted = << >> THEN <<r>>
    ELSE IF RatGT(r.score, Head(sorted).score) THEN <<r>> \o sorted
    ELSE <<Head(sorted)>> \o InsertByScore(Tail(sorted), r)

RECURSIVE SortByScoreDesc(_)
SortByScoreDesc(results) ==
    IF results = << >> THEN << >>
    ELSE InsertByScore(SortByScoreDesc(SubSeq(results, 1, Len(results) - 1)),
                       results[Len(results)])

\* A merge order with the dense list ahead of the lexical list.
CombinedDenseFirst(docs, top_k) == contriever_search(docs, top_k) \o bm25_search(docs, top_k)

\* combined_results of hybrid_search.
CombinedResults(docs, top_k) == bm25_search(docs, top_k) \o contriever_search(docs, top_k)

\* The value hybrid_search returns when neither ranker raises.
hybrid_results(docs, top_k) ==
    Prefix(SortByScoreDesc(DedupByDocId(CombinedResults(docs, top_k))), top_k)

ExcIndexNotBuilt == Exc("ValueError", "Index not built. Call build_index() first.")
ExcModelNotLoaded == Exc("ValueError", "Model not loaded. Call load_model() first.")

\* A hybrid_search that answers whether or not the rankers are ready.
hybrid_search_unguarded(docs, built, loaded, query, top_k) ==
    [raised |-> FALSE, value |-> hybrid_results(docs, top_k)]

\* hybrid_search as an outcome: [raised, value], value the exception or the results.
hybrid_search(docs, built, loaded, query, top_k) ==
    IF ~built THEN [raised |-> TRUE, value |-> ExcIndexNotBuilt]
    ELSE IF ~loaded THEN [raised |-> TRUE, value |-> ExcModelNotLoaded]
    ELSE [raised |-> FALSE, value |-> hybrid_results(docs, top_k)]

\* ---------------------------------------------------------------- validator
ConsistencyThreshold == Milli(700)
ValidityThreshold == Milli(750)

\* step.get("confidence", 0.0)
StepConfidence(step) == IF "confidence" \in DOMAIN step THEN step.confidence ELSE Zero

RECURSIVE SumConfidence(_)
SumConfidence(steps) ==
    IF steps = << >> THEN Zero
    ELSE RatAdd(StepConfidence(Head(steps)), SumConfidence(Tail(steps)))

\* sum(...) / len(reasoning_steps) if reasoning_steps else 0.0
AverageConfidence(steps) ==
    IF steps # << >> THEN RatDivInt(SumConfidence(steps), Len(steps)) ELSE Zero

\* all(step.get("confidence", 0.0) > 0.7 for step in reasoning_steps)
AllStepsConfidentAtLeast(steps) ==
    \A i \in 1..Len(steps) : ~RatGT(ConsistencyThreshold, StepConfidence(steps[i]))
AllStepsConfident(steps) ==
    \A i \in 1..Len(steps) : RatGT(StepConfidence(steps[i]), ConsistencyThreshold)

\* The chain confidence when the consistency gate is ignored.
ChainConfidenceUngated(avg_confidence, is_consistent) == avg_confidence
\* avg_confidence if is_consistent else 0.0
ChainConfidence(avg_confidence, is_consistent) ==
    IF is_consistent THEN avg_confidence ELSE Zero

\* is_consistent and avg_confidence > 0.75
ChainIsValidWithoutAverage(avg_confidence, is_consistent) == is_consistent
ChainIsValid(avg_confidence, is_consistent) ==
    is_consistent /\ RatGT(avg_confidence, ValidityThreshold)

\* The dict validate_reasoning_chain builds, appends to the history and returns.
validate_reasoning_chain(reasoning_steps) ==
    LET avg_confidence == AverageConfidence(reasoning_steps)
        is_consistent == AllStepsConfident(reasoning_steps)
    IN  [ validation_type |-> "reasoning_chain",
          reasoning_steps |-> reasoning_steps,
          average_confidence |-> avg_confidence,
          is_consistent |-> is_consistent,
          is_valid |-> ChainIsValid(avg_confidence, is_consistent),
          confidence |-> ChainConfidence(avg_confidence, is_consistent) ]

\* An expression text, by what eval makes of it: a literal, a sum, a true
\* division, a text that does not parse, a name that is not defined.
Expr(form, a, b) == [form |-> form, a |-> a, b |-> b]
\* eval(expression) as an outcome: [raised, value].
Eval(expression) ==
    CASE expression.form = "lit" ->
             [raised |-> FALSE, value |-> Rat(expression.a, 1)]
      [] expression.form = "add" ->
             [raised |-> FALSE, value |-> Rat(expression.a + expression.b, 1)]
      [] expression.form = "div" ->
             IF expression.b = 0
             THEN [raised |-> TRUE, value |-> Exc("ZeroDivisionError", "division by zero")]
             ELSE [raised |-> FALSE, value |-> Rat(expression.a, expression.b)]
      [] expression.form = "malformed" ->
             [raised |-> TRUE, value |-> Exc("SyntaxError", "invalid syntax")]
      [] OTHER ->
             [raised |-> TRUE, value |-> Exc("NameError", "name is not defined")]

\* An expected_result: a number, or a str holding the digits of one.
Num(r) == [type |-> "number", value |-> r]
Str(r) == [type |-> "str", value |-> r]
\* result == expected_result, result a number: numbers compare by value (2 == 2.0),
\* a number never equals a str.
PyEquals(result, expected_result) ==
    expected_result.type = "number" /\ expected_result.value = result

\* A confidence that gives a failed comparison half credit.
MathConfidenceHalf(is_valid) == IF is_valid THEN Rat(1, 1) ELSE Milli(500)
\* 1.0 if is_valid else 0.0
MathConfidence(is_valid) == IF is_valid THEN Rat(1, 1) ELSE Zero

\* The dict validate_mathematical_computation returns: from the try block when
\* eval returns, from the except branch when it raises.
validate_mathematical_computation(expression, expected_result) ==
    LET out == Eval(expression)
    IN  IF ~out.raised
        THEN [ validation_type |-> "mathematical",
               expression |-> expression,
               expected_result |-> expected_result,
               actual_result |-> out.value,
               is_valid |-> PyEquals(out.value, expected_result),
               confidence |-> MathConfidence(PyEquals(out.value, expected_result)) ]
        ELSE [ validation_type |-> "mathematical",
               expression |-> expression,
               expected_result |-> expected_result,
               error |-> out.value.msg,
               is_valid |-> FALSE,
               confidence |-> Zero ]

Sanctioned == <<"s", "a", "n", "c", "t", "i", "o", "n", "e", "d">>

\* The dict validate_external_fact builds, appends to the history and returns.
validate_external_fact(fact, fact_type) ==
    IF fact_type = "ofac_sanctions"
    THEN [ validation_type |-> "external_api", fact |-> fact, fact_type |-> fact_type,
           api_used |-> "OFAC", is_valid |-> ~Contains(Sanctioned, Lower(fact)),
           confidence |-> Milli(950) ]
    ELSE IF fact_type = "sec_filings"
    THEN [ validation_type |-> "external_api", fact |-> fact, fact_type |-> fact_type,
           api_used |-> "SEC", is_valid |-> TRUE, confidence |-> Milli(900) ]
    ELSE [ validation_type |-> "external_api", fact |-> fact, fact_type |-> fact_type,
           api_used |-> "generic", is_valid |-> TRUE, confidence |-> Milli(800) ]

\* A min that always takes its first argument: no cap.
RatFirst(a, b) == a
RatMin(a, b) == IF RatGT(a, b) THEN b ELSE a
\* set(facts)
SetOf(list) == {list[i] : i \in 1..Len(list)}

\* The dict perform_cross_validation builds, appends to the history and returns.
perform_cross_validation(facts, sources) ==
    LET validation_score ==
            IF facts # << >> THEN Rat(Cardinality(SetOf(facts)), Len(facts)) ELSE Zero
    IN  [ validation_type |-> "cross_validation",
          facts |-> facts,
          sources |-> sources,
          consistency_score |-> validation_score,
          is_valid |-> RatGT(validation_score, Milli(500)),
          confidence |-> RatMin(RatAdd(validation_score, Milli(300)), Rat(1, 1)) ]

\* ---------------------------------------------------------------- answer generator
ValidatedThreshold == Milli(700)

\* A status that takes every confidence above one half for validated.
ValidationStatusAboveHalf(confidence) ==
    IF RatGT(confidence, Milli(500)) THEN "validated" ELSE "needs_review"
\* "validated" if confidence > 0.7 else "needs_review", on the confidence passed in.
ValidationStatus(confidence) ==
    IF RatGT(confidence, ValidatedThreshold) THEN "validated" ELSE "needs_review"

\* evidence or [], reasoning_steps or []: None becomes the empty list.
OrEmpty(x) == IF x.some THEN x.value ELSE << >>

generate_answer(question_id, answer, question_type, confidence, evidence, reasoning_steps) ==
    [ question_id |-> question_id,
      answer |-> answer,
      answer_type |-> question_type,
      confidence |-> Round3(confidence),
      evidence |-> OrEmpty(evidence),
      reasoning_steps |-> OrEmpty(reasoning_steps),
      validation_status |-> ValidationStatus(confidence) ]

\* ---------------------------------------------------------------- graph builder
\* pred.upper() on the predicates of the model.
Upper(pred) ==
    CASE pred \in {"born_in", "Born_In"} -> "BORN_IN"
      [] pred = "worked_at" -> "WORKED_AT"
      [] pred = "developed" -> "DEVELOPED"
      [] pred = "discovered" -> "DISCOVERED"
      [] pred = "related_to" -> "RELATED_TO"
      [] OTHER -> pred

\* "Albert Einstein" in text, on a text of words joined by single spaces.
HasPhrase(text, w1, w2) == \E i \in 1..(Len(text) - 1) : text[i] = w1 /\ text[i + 1] = w2

extract_triples(text) ==
    IF HasPhrase(text, "Albert", "Einstein") THEN
        << <<"Albert Einstein", "born_in", "Ulm">>,
           <<"Albert Einstein", "worked_at", "Princeton University">>,
           <<"Albert Einstein", "developed", "Theory of Relativity">> >>
    ELSE IF HasPhrase(text, "Marie", "Curie") THEN
        << <<"Marie Curie", "born_in", "Warsaw">>,
           <<"Marie Curie", "worked_at", "Sorbonne University">>,
           <<"Marie Curie", "discovered", "Radium">> >>
    ELSE IF Len(text) >= 3 THEN << <<text[1], "related_to", text[Len(text)]>> >>
    ELSE << >>

\* all_triples of build_graph_from_documents: the triples of every document, in order.
RECURSIVE AllTriples(_)
AllTriples(docs) ==
    IF docs = << >> THEN << >>
    ELSE extract_triples(Head(docs)) \o AllTriples(Tail(docs))

\* The graph store: how many nodes carry each name, how many edges each
\* (subject, TYPE, object).
EmptyGraph == [nodes |-> << >>, edges |-> << >>]
Count(bag, x) == IF x \in DOMAIN bag THEN bag[x] ELSE 0
\* CREATE: one more element, whatever exists.
BagCreate(bag, x) == [y \in DOMAIN bag \cup {x} |-> IF y = x THEN Count(bag, x) + 1 ELSE bag[y]]
\* MERGE: match what exists, create only when nothing matches.
BagMerge(bag, x) == IF Count(bag, x) > 0 THEN bag ELSE BagCreate(bag, x)

\* The edge a triple's statement names.
EdgeOf(triple) == <<triple[1], Upper(triple[2]), triple[3]>>

\* MERGE (s {name: subj}) MERGE (o {name: obj}) MERGE (s)-[:PRED]->(o)
CreateStatement(g, triple) ==
    [ nodes |-> BagCreate(BagCreate(g.nodes, triple[1]), triple[3]),
      edges |-> BagCreate(g.edges, EdgeOf(triple)) ]
MergeStatement(g, triple) ==
    [ nodes |-> BagMerge(BagMerge(g.nodes, triple[1]), triple[3]),
      edges |-> BagMerge(g.edges, EdgeOf(triple)) ]

\* The loop of store_triples: one statement per triple, in order.
RECURSIVE StoreAll(_, _)
StoreAll(g, triples) ==
    IF triples = << >> THEN g
    ELSE StoreAll(MergeStatement(g, Head(triples)), Tail(triples))

\* The statements store_triples prints, counted per triple.
RECURSIVE IssueAll(_, _)
IssueAll(log, triples) ==
    IF triples = << >> THEN log
    ELSE IssueAll(BagCreate(log, Head(triples)), Tail(triples))

ExcGraphNotInitialized ==
    Exc("ValueError", "Graph not initialized. Call initialize_graph() first.")

\* ---------------------------------------------------------------- reasoner
\* Whether an entity name contains the phrase a simulated query result keys on.
NameHas(name, phrase) ==
    \/ name = phrase
    \/ (name = "Princeton University" /\ phrase = "Princeton")

\* execute_cypher_query on a connected reasoner, by the names in the query text.
execute_cypher_query(names) ==
    IF (\E n \in names : NameHas(n, "Albert Einstein"))
       /\ (\E n \in names : NameHas(n, "Princeton"))
    THEN << [result |-> "Albert Einstein worked at Princeton University"] >>
    ELSE IF (\E n \in names : NameHas(n, "Marie Curie"))
            /\ (\E n \in names : NameHas(n, "Radium"))
    THEN << [result |-> "Marie Curie discovered Radium"] >>
    ELSE << [result |-> "Path found between entities"] >>

find_path_between_entities(source_entity, target_entity, max_hops) ==
    execute_cypher_query({source_entity, target_entity})

\* A reasoning that takes the first two entities as source and target.
PerformFirstTwo(entities, relations) ==
    IF Len(entities) >= 2 THEN
        [ reasoning_type |-> "path_finding",
          source_entity |-> entities[1],
          target_entity |-> entities[2],
          path_results |-> find_path_between_entities(entities[1], entities[2], 3),
          confidence |-> Milli(850) ]
    ELSE
        [ reasoning_type |-> "entity_lookup",
          entity |-> entities[1],
          results |-> execute_cypher_query({entities[1]}),
          confidence |-> Milli(900) ]

\* A reasoning with the two confidences exchanged.
PerformSwappedConfidence(entities, relations) ==
    IF Len(entities) >= 2 THEN
        [ reasoning_type |-> "path_finding",
          source_entity |-> entities[1],
          target_entity |-> entities[Len(entities)],
          path_results |-> find_path_between_entities(entities[1], entities[Len(entities)], 3),
          confidence |-> Milli(900) ]
    ELSE
        [ reasoning_type |-> "entity_lookup",
          entity |-> entities[1],
          results |-> execute_cypher_query({entities[1]}),
          confidence |-> Milli(850) ]

\* perform_multi_hop_reasoning on a non-empty entity list.
perform_multi_hop_reasoning(entities, relations) ==
    IF Len(entities) >= 2 THEN
        [ reasoning_type |-> "path_finding",
          source_entity |-> entities[1],
          target_entity |-> entities[Len(entities)],
          path_results |-> find_path_between_entities(entities[1], entities[Len(entities)], 3),
          confidence |-> Milli(850) ]
    ELSE
        [ reasoning_type |-> "entity_lookup",
          entity |-> entities[1],
          results |-> execute_cypher_query({entities[1]}),
          confidence |-> Milli(900) ]

\* ---------------------------------------------------------------- main agent
FallbackResult ==
    [ reasoning_type |-> "fallback",
      answer |-> "No entities found, using direct retrieval",
      confidence |-> Milli(600) ]

\* d.get("confidence", default)
GetConfidence(d, default) == IF "confidence" \in DOMAIN d THEN d.confidence ELSE default

\* The confidence handed to generate_answer.
FinalConfidenceSum(reasoning_result, validation_result) ==
    RatAdd(GetConfidence(reasoning_result, Milli(700)),
           GetConfidence(validation_result, Milli(800)))
FinalConfidence(reasoning_result, validation_result) ==
    RatMul(GetConfidence(reasoning_result, Milli(700)),
           GetConfidence(validation_result, Milli(800)))

\* The de-duplication of the retrieved documents: by content, first seen first.
RECURSIVE UniqueDocsFrom(_, _)
UniqueDocsFrom(docs, seen) ==
    IF docs = << >> THEN << >>
    ELSE IF Head(docs) \in seen THEN UniqueDocsFrom(Tail(docs), seen)
    ELSE <<Head(docs)>> \o UniqueDocsFrom(Tail(docs), seen \cup {Head(docs)})
\* No de-duplication of the retrieved documents.
UniqueDocsKeepAll(docs) == docs
UniqueDocs(docs) == UniqueDocsFrom(docs, {})

\* [r["document"] for r in retrieved_results]
DocumentsOf(results) == [i \in 1..Len(results) |-> results[i].document]

ExcNotInitialized ==
    Exc("ValueError", "System not initialized. Call initialize_system() first.")

\* except Exception: the exception classes the handler of process_question catches.
CatchesValueErrorOnly(e) == e.type = "ValueError"
Catches(e) == TRUE

\* The dict the except branch returns.
ErrorAnswerAsGeneral(question_id, e) ==
    [ question_id |-> question_id, answer |-> <<"Error: ", e.msg>>,
      answer_type |-> "general", confidence |-> Milli(600), evidence |-> << >>,
      reasoning_steps |-> << >>, error |-> e.msg ]
ErrorAnswer(question_id, e) ==
    [ question_id |-> question_id, answer |-> <<"Error: ", e.msg>>,
      answer_type |-> "error", confidence |-> Zero, evidence |-> << >>,
      reasoning_steps |-> << >>, error |-> e.msg ]

\* ------------------------------------------------------------------ inputs
DefaultTopK == 5
\* Largest top_k handed to hybrid_search directly.
MaxTopK == 3

QWho == <<"W", "h", "o", "?">>
QWhat == <<"W", "H", "A", "T", "?">>
QWhy == <<"w", "h", "y", "?">>
QOther == <<"?">>
Questions == {QWho, QWhat, QWhy, QOther}
QuestionIds == {"q1"}

\* documents of initialize_system: None, or a list.
DocArgs == {None} \cup {Some(d) : d \in DocLists(MaxDocs)}

NoCall == [op |-> "none", args |-> << >>, raised |-> FALSE, value |-> << >>]
Returned(op, args, value) == [op |-> op, args |-> args, raised |-> FALSE, value |-> value]
Raised(op, args, e) == [op |-> op, args |-> args, raised |-> TRUE, value |-> e]
NoInput == [op |-> "none"]
IdleFrame == << >>

\* ------------------------------------------------------------ initial states
RetrieverFresh == documents = << >> /\ index_built = FALSE /\ model_loaded = FALSE
GraphFresh == graph_initialized = FALSE /\ graph = EmptyGraph /\ issued = << >>
OthersFresh ==
    /\ graph_connected = FALSE /\ executor_initialized = FALSE
    /\ task_history = << >> /\ validation_history = << >>
\* No batch is running.
NoBatch == [active |-> FALSE, questions |-> << >>, results |-> << >>]
AgentFresh ==
    /\ system_initialized = FALSE
    /\ pc = "idle" /\ frame = IdleFrame /\ calls = 0 /\ last = NoCall
    /\ batch = NoBatch
\* No console: no history, no history file.
ConsoleFresh == history = << >> /\ history_file = None

\* MultiHopAgent(config): no component exists yet; the component variables hold
\* what the constructors of initialize_system will set.
Init ==
    /\ AgentFresh /\ ConsoleFresh /\ RetrieverFresh /\ GraphFresh /\ OthersFresh
    /\ config \in {[top_k_retrieval |-> k] : k \in {1, DefaultTopK}}
    /\ input = NoInput

agent_vars == << system_initialized, config, pc, frame, calls, last >>
client_vars == << batch, history, history_file >>
retriever_vars == << documents, index_built, model_loaded >>
graph_vars == << graph_initialized, graph, issued >>

\* ------------------------------------------------------------- main agent
\* initialize_system(documents): fresh components, the retriever initialized only
\* when documents is a non-empty list; the graph store itself outlives them.
InitializeSystem(docs) ==
    /\ pc = "idle"
    /\ calls < MaxCalls
    /\ calls' = calls + 1
    /\ task_history' = << >>
    /\ validation_history' = << >>
    /\ IF docs.some /\ docs.value # << >>
       THEN documents' = docs.value /\ index_built' = TRUE /\ model_loaded' = TRUE
       ELSE documents' = << >> /\ index_built' = FALSE /\ model_loaded' = FALSE
    /\ graph_initialized' = TRUE
    /\ graph_connected' = TRUE
    /\ executor_initialized' = TRUE
    /\ system_initialized' = TRUE
    /\ UNCHANGED << config, graph, issued, pc, frame, input, client_vars, last >>

\* process_question up to the try block: the guard on system_initialized raises to
\* the caller; otherwise the pipeline starts.
ProcessQuestionCall(question, question_id) ==
    /\ pc = "idle"
    /\ calls < MaxCalls
    /\ calls' = calls + 1
    /\ IF ~system_initialized
       THEN /\ last' = Raised("process_question",
                              [question |-> question, question_id |-> question_id],
                              ExcNotInitialized)
            /\ UNCHANGED << pc, frame >>
       ELSE /\ pc' = "decompose"
            /\ frame' = [question |-> question, question_id |-> question_id]
            /\ UNCHANGED last
    /\ UNCHANGED << system_initialized, config, retriever_vars, graph_vars,
                    graph_connected, executor_initialized, task_history,
                    validation_history, input, client_vars >>

\* An exception e raised inside the try block: the except branch returns the error
\* Answer when it catches e, and e reaches the caller when it does not.
Handle(e) ==
    /\ last' = IF Catches(e)
               THEN Returned("process_question",
                             [question |-> frame.question, question_id |-> frame.question_id],
                             ErrorAnswer(frame.question_id, e))
               ELSE Raised("process_question",
                           [question |-> frame.question, question_id |-> frame.question_id],
                           e)
    /\ pc' = "idle"
    /\ frame' = IdleFrame

\* Step 1: parse_question and decompose_task (which appends to task_history).
StageDecompose ==
    /\ pc = "decompose"
    /\ LET parsed == parse_question(frame.question)
           sub_tasks == SubTasksOf(parsed)
       IN  /\ task_history' = Append(task_history,
                                     [question |-> parsed.original_question,
                                      sub_tasks |-> sub_tasks])
           /\ frame' = [ question |-> frame.question, question_id |-> frame.question_id,
                         parsed_question |-> parsed, sub_tasks |-> sub_tasks,
                         next_task |-> 1, all_retrieved_docs |-> << >>,
                         dispatched |-> << >> ]
    /\ pc' = "retrieve"
    /\ UNCHANGED << system_initialized, config, retriever_vars, graph_vars,
                    graph_connected, executor_initialized, validation_history,
                    calls, input, client_vars, last >>

\* Step 2, one iteration of the loop: hybrid_search for the next sub-task.
StageRetrieve ==
    /\ pc = "retrieve"
    /\ LET task == frame.sub_tasks[frame.next_task]
           out == hybrid_search(documents, index_built, model_loaded, task.query,
                                config.top_k_retrieval)
       IN  IF out.raised
           THEN Handle(out.value)
           ELSE /\ frame' = [frame EXCEPT
                                !.all_retrieved_docs = @ \o DocumentsOf(out.value),
                                !.dispatched = Append(@, task.task_id),
                                !.next_task = @ + 1]
                /\ pc' = IF frame.next_task = Len(frame.sub_tasks) THEN "dedup"
                         ELSE "retrieve"
                /\ UNCHANGED last
    /\ UNCHANGED << system_initialized, config, retriever_vars, graph_vars,
                    graph_connected, executor_initialized, task_history,
                    validation_history, calls, input, client_vars >>

\* A de-duplication step that goes on to the reasoning step, past the graph.
StageDedupThenReason ==
    /\ pc = "dedup"
    /\ frame' = frame @@ [unique_docs |-> UniqueDocs(frame.all_retrieved_docs)]
    /\ pc' = "reason"
    /\ UNCHANGED << system_initialized, config, retriever_vars, graph_vars,
                    graph_connected, executor_initialized, task_history,
                    validation_history, calls, input, client_vars, last >>

\* "Remove duplicates while preserving order".
StageDedup ==
    /\ pc = "dedup"
    /\ frame' = frame @@ [unique_docs |-> UniqueDocs(frame.all_retrieved_docs)]
    /\ pc' = "build"
    /\ UNCHANGED << system_initialized, config, retriever_vars, graph_vars,
                    graph_connected, executor_initialized, task_history,
                    validation_history, calls, input, client_vars, last >>

\* Step 3: build_graph_from_documents(unique_docs): initialize the graph when it
\* is not, extract the triples of every document, store them all.
StageBuildGraph ==
    /\ pc = "build"
    /\ LET all_triples == AllTriples(frame.unique_docs)
       IN  /\ graph_initialized' = TRUE
           /\ graph' = StoreAll(graph, all_triples)
           /\ issued' = IssueAll(issued, all_triples)
           /\ frame' = frame @@ [triples |-> all_triples]
    /\ pc' = "reason"
    /\ UNCHANGED << system_initialized, config, retriever_vars, graph_connected,
                    executor_initialized, task_history, validation_history,
                    calls, input, client_vars, last >>

\* Step 4: the reasoner when the question has entities, the fallback dict when not.
StageReason ==
    /\ pc = "reason"
    /\ LET entities == frame.parsed_question.entities
           relations == frame.parsed_question.relations
       IN  IF entities # << >>
           THEN /\ frame' = frame @@ [reasoning_result |->
                                        perform_multi_hop_reasoning(entities, relations)]
                /\ graph_connected' = TRUE
           ELSE /\ frame' = frame @@ [reasoning_result |-> FallbackResult]
                /\ UNCHANGED graph_connected
    /\ pc' = "validate"
    /\ UNCHANGED << system_initialized, config, retriever_vars, graph_vars,
                    executor_initialized, task_history, validation_history,
                    calls, input, client_vars, last >>

\* Step 5: validate_reasoning_chain([reasoning_result]), appended to the history.
StageValidate ==
    /\ pc = "validate"
    /\ LET validation_result == validate_reasoning_chain(<<frame.reasoning_result>>)
       IN  /\ validation_history' = Append(validation_history, validation_result)
           /\ frame' = frame @@ [validation_result |-> validation_result]
    /\ pc' = "execute"
    /\ UNCHANGED << system_initialized, config, retriever_vars, graph_vars,
                    graph_connected, executor_initialized, task_history,
                    calls, input, client_vars, last >>

\* The task types Step 6 hands to the executor.
ExecutorTaskTypes == {"web_browsing", "form_filling", "ocr"}
NeedsExecutor(sub_tasks) ==
    \E i \in 1..Len(sub_tasks) : sub_tasks[i].task_type \in ExecutorTaskTypes

\* Step 6: execute_complex_task for the first sub-task of an executor type.
StageExecute ==
    /\ pc = "execute"
    /\ executor_initialized' = (executor_initialized \/ NeedsExecutor(frame.sub_tasks))
    /\ pc' = "synthesize"
    /\ UNCHANGED << system_initialized, config, retriever_vars, graph_vars,
                    graph_connected, task_history, validation_history,
                    frame, calls, input, client_vars, last >>

\* Step 7: generate_answer and return.
StageSynthesize ==
    /\ pc = "synthesize"
    /\ last' = Returned("process_question",
                        [question |-> frame.question, question_id |-> frame.question_id],
                        generate_answer(
                            frame.question_id,
                            <<"str", frame.reasoning_result>>,
                            frame.parsed_question.question_type,
                            FinalConfidence(frame.reasoning_result, frame.validation_result),
                            Some(Prefix(frame.unique_docs, 3)),
                            Some(<<frame.reasoning_result, frame.validation_result>>)))
    /\ pc' = "idle"
    /\ frame' = IdleFrame
    /\ UNCHANGED << system_initialized, config, retriever_vars, graph_vars,
                    graph_connected, executor_initialized, task_history,
                    validation_history, calls, input, client_vars >>

\* Whether the stage at pc calls into a component, which may raise.
CallsComponent ==
    \/ pc \in {"decompose", "retrieve", "build", "validate", "synthesize"}
    \/ (pc = "reason" /\ frame.parsed_question.entities # << >>)
    \/ (pc = "execute" /\ NeedsExecutor(frame.sub_tasks))

FaultMessage(stage) ==
    CASE stage = "decompose" -> "planner failed"
      [] stage = "retrieve" -> "retriever failed"
      [] stage = "build" -> "graph builder failed"
      [] stage = "reason" -> "reasoner failed"
      [] stage = "validate" -> "validator failed"
      [] stage = "execute" -> "executor failed"
      [] OTHER -> "answer generator failed"

\* The component call of the running stage raises an exception (its backing
\* service fails): control passes to the except branch.
StageRaises ==
    /\ CallsComponent
    /\ Handle(Exc("RuntimeError", FaultMessage(pc)))
    /\ UNCHANGED << system_initialized, config, retriever_vars, graph_vars,
                    graph_connected, executor_initialized, task_history,
                    validation_history, calls, input, client_vars >>

Next ==
    \/ \E docs \in DocArgs : InitializeSystem(docs)
    \/ \E question \in Questions, question_id \in QuestionIds :
           ProcessQuestionCall(question, question_id)
    \/ StageDecompose
    \/ StageRetrieve
    \/ StageDedup
    \/ StageBuildGraph
    \/ StageReason
    \/ StageValidate
    \/ StageExecute
    \/ StageSynthesize
    \/ StageRaises

Spec == Init /\ [][Next]_vars

\* ------------------------------------------------------------- retriever alone
Queries == {QWho, QOther}
\* Documents for the retriever alone: a colliding pair and a third document.
RetrieverDocs == {DocEinstein, DocPlain, DocPlainAlt}
TopKs == {-1, 0} \cup (1..MaxTopK)

\* TraditionalRetriever(documents): the lists are kept, no index is built.
InitRetriever ==
    /\ AgentFresh /\ ConsoleFresh /\ GraphFresh /\ OthersFresh
    /\ config = [top_k_retrieval |-> DefaultTopK]
    /\ input = NoInput
    /\ documents \in ListsOf(RetrieverDocs, MaxDocs)
    /\ index_built = FALSE
    /\ model_loaded = FALSE

\* TraditionalRetriever.initialize(documents)
RetrieverInitialize(docs) ==
    /\ documents' = docs
    /\ index_built' = TRUE
    /\ model_loaded' = TRUE
    /\ UNCHANGED << agent_vars, graph_vars, graph_connected, executor_initialized,
                    task_history, validation_history, input, client_vars >>

\* TraditionalRetriever.hybrid_search(query, top_k); the call record keeps the
\* documents the retriever held when it was called.
HybridSearch(query, top_k) ==
    /\ LET out == hybrid_search(documents, index_built, model_loaded, query, top_k)
           args == [documents |-> documents, query |-> query, top_k |-> top_k]
       IN  last' = IF out.raised THEN Raised("hybrid_search", args, out.value)
                   ELSE Returned("hybrid_search", args, out.value)
    /\ UNCHANGED << system_initialized, config, pc, frame, calls, retriever_vars,
                    graph_vars, graph_connected, executor_initialized,
                    task_history, validation_history, input, client_vars >>

NextRetriever ==
    \/ \E docs \in ListsOf(RetrieverDocs, MaxDocs) : RetrieverInitialize(docs)
    \/ \E query \in Queries, top_k \in TopKs : HybridSearch(query, top_k)

SpecRetriever == InitRetriever /\ [][NextRetriever]_vars

\* --------------------------------------------------------- graph builder alone
\* Longest triple list handed to store_triples.
MaxTriples == 2
Triples ==
    { <<"Albert Einstein", "worked_at", "Princeton University">>,
      <<"Albert Einstein", "Born_In", "Ulm">>,
      <<"Ulm", "related_to", "Ulm">> }
TripleLists == ListsOf(Triples, MaxTriples)
\* Documents for the graph builder alone: one per branch of extract_triples.
GraphDocs == {DocEinstein, DocCurie, DocPlain, DocShort}

\* GraphBuilder(...): not initialized, over an empty store.
InitGraph ==
    /\ AgentFresh /\ ConsoleFresh /\ RetrieverFresh /\ GraphFresh /\ OthersFresh
    /\ config = [top_k_retrieval |-> DefaultTopK]
    /\ input = NoInput

\* GraphBuilder.initialize_graph()
InitializeGraph ==
    /\ graph_initialized' = TRUE
    /\ UNCHANGED << agent_vars, retriever_vars, graph, issued, graph_connected,
                    executor_initialized, task_history, validation_history, input, client_vars >>

\* A store_triples that stores whether or not the graph is initialized.
StoreTriplesUnguarded(triples) ==
    /\ calls < MaxStores
    /\ calls' = calls + 1
    /\ graph' = StoreAll(graph, triples)
    /\ issued' = IssueAll(issued, triples)
    /\ last' = Returned("store_triples", triples, << >>)
    /\ UNCHANGED << system_initialized, config, pc, frame, retriever_vars,
                    graph_initialized, graph_connected, executor_initialized,
                    task_history, validation_history, input, client_vars >>

\* GraphBuilder.store_triples(triples)
StoreTriples(triples) ==
    /\ calls < MaxStores
    /\ calls' = calls + 1
    /\ IF ~graph_initialized
       THEN /\ last' = Raised("store_triples", triples, ExcGraphNotInitialized)
            /\ UNCHANGED << graph, issued >>
       ELSE /\ graph' = StoreAll(graph, triples)
            /\ issued' = IssueAll(issued, triples)
            /\ last' = Returned("store_triples", triples, << >>)
    /\ UNCHANGED << system_initialized, config, pc, frame, retriever_vars,
                    graph_initialized, graph_connected, executor_initialized,
                    task_history, validation_history, input, client_vars >>

\* GraphBuilder.build_graph_from_documents(documents)
BuildGraphFromDocuments(docs) ==
    /\ calls < MaxStores
    /\ calls' = calls + 1
    /\ graph_initialized' = TRUE
    /\ LET all_triples == AllTriples(docs)
       IN  /\ graph' = StoreAll(graph, all_triples)
           /\ issued' = IssueAll(issued, all_triples)
           /\ last' = Returned("build_graph_from_documents", docs, all_triples)
    /\ UNCHANGED << system_initialized, config, pc, frame, retriever_vars,
                    graph_connected, executor_initialized, task_history,
                    validation_history, input, client_vars >>

NextGraph ==
    \/ InitializeGraph
    \/ \E triples \in TripleLists : StoreTriples(triples)
    \/ \E docs \in ListsOf(GraphDocs, MaxDocs) : BuildGraphFromDocuments(docs)

SpecGraph == InitGraph /\ [][NextGraph]_vars

\* ------------------------------------------- validator and answer generator alone
\* Largest operand of an expression handed to validate_mathematical_computation.
MaxOperand == 2
\* Longest fact list handed to perform_cross_validation directly.
MaxFacts == 3
\* Facts to cross-validate: three distinct texts.
FactUniverse == {<<"a">>, <<"b">>, <<"c">>}
\* Step confidences on both sides of the thresholds 0.7 and 0.75.
StepInputs ==
    {[confidence |-> Milli(m)] : m \in {600, 700, 710, 760, 900, 950}}
        \cup {[reasoning_type |-> "no confidence"]}
ChainInputs == ListsOf(StepInputs, MaxChain)

\* Confidences handed to generate_answer: none on a rounding tie.
ConfidenceInputs == {Rat(k, 10000) : k \in {0, 3600, 6996, 7000, 7004, 7006, 8100, 10000}}
QuestionTypes ==
    {"entity_identification", "fact_retrieval", "causal_reasoning", "general", "other"}

\* Expressions over the operands 0..MaxOperand, and texts eval cannot evaluate.
Expressions ==
    {Expr(f, a, b) : f \in {"add", "div"}, a \in 0..MaxOperand, b \in 0..MaxOperand}
    \cup {Expr("lit", a, 0) : a \in 0..MaxOperand}
    \cup {Expr("malformed", 0, 0), Expr("name", 0, 0)}
\* Expected results: every value an expression can have, one none has, as
\* numbers and as strs.
ExpectedResults ==
    {Num(Rat(a, b)) : a \in 0..(2 * MaxOperand + 1), b \in 1..MaxOperand}
    \cup {Str(Rat(a, 1)) : a \in 0..MaxOperand}

CallInputs ==
    {[op |-> "validate_reasoning_chain", reasoning_steps |-> c] : c \in ChainInputs}
    \cup
    {[op |-> "perform_cross_validation", facts |-> f, sources |-> <<"s1", "s2">>] :
        f \in ListsOf(FactUniverse, MaxFacts)}
    \cup
    {[op |-> "validate_mathematical_computation", expression |-> e,
      expected_result |-> x] : e \in Expressions, x \in ExpectedResults}
    \cup
    {[op |-> "generate_answer", question_id |-> "q1", answer |-> "a",
      question_type |-> t, confidence |-> c, evidence |-> e, reasoning_steps |-> r] :
        t \in QuestionTypes, c \in ConfidenceInputs,
        e \in {None, Some(<<DocPlain>>)}, r \in {None, Some(<<FallbackResult>>)}}

\* Validator() and AnswerGenerator() just constructed, and the call to make.
InitCalls ==
    /\ AgentFresh /\ ConsoleFresh /\ RetrieverFresh /\ GraphFresh /\ OthersFresh
    /\ config = [top_k_retrieval |-> DefaultTopK]
    /\ input \in CallInputs

\* Validator.validate_reasoning_chain(reasoning_steps)
ValidateChain(reasoning_steps) ==
    /\ calls < MaxCalls
    /\ calls' = calls + 1
    /\ LET validation_result == validate_reasoning_chain(reasoning_steps)
       IN  /\ validation_history' = Append(validation_history, validation_result)
           /\ last' = Returned("validate_reasoning_chain", reasoning_steps,
                               validation_result)
    /\ UNCHANGED << system_initialized, config, pc, frame, retriever_vars,
                    graph_vars, graph_connected, executor_initialized,
                    task_history, input, client_vars >>

\* Validator.validate_mathematical_computation(expression, expected_result): the
\* try block appends its result to the history, the except branch returns its
\* result without appending.
ValidateMathematicalComputation(expression, expected_result) ==
    /\ calls < MaxCalls
    /\ calls' = calls + 1
    /\ LET validation_result ==
               validate_mathematical_computation(expression, expected_result)
       IN  /\ validation_history' =
                  IF Eval(expression).raised THEN validation_history
                  ELSE Append(validation_history, validation_result)
           /\ last' = Returned("validate_mathematical_computation",
                               [expression |-> expression,
                                expected_result |-> expected_result],
                               validation_result)
    /\ UNCHANGED << system_initialized, config, pc, frame, retriever_vars,
                    graph_vars, graph_connected, executor_initialized,
                    task_history, input, client_vars >>

\* Validator.validate_external_fact(fact, fact_type)
ValidateExternalFact(fact, fact_type) ==
    /\ calls < MaxCalls
    /\ calls' = calls + 1
    /\ LET validation_result == validate_external_fact(fact, fact_type)
       IN  /\ validation_history' = Append(validation_history, validation_result)
           /\ last' = Returned("validate_external_fact",
                               [fact |-> fact, fact_type |-> fact_type],
                               validation_result)
    /\ UNCHANGED << system_initialized, config, pc, frame, retriever_vars,
                    graph_vars, graph_connected, executor_initialized,
                    task_history, input, client_vars >>

\* Validator.perform_cross_validation(facts, sources)
PerformCrossValidation(facts, sources) ==
    /\ calls < MaxCalls
    /\ calls' = calls + 1
    /\ LET validation_result == perform_cross_validation(facts, sources)
       IN  /\ validation_history' = Append(validation_history, validation_result)
           /\ last' = Returned("perform_cross_validation",
                               [facts |-> facts, sources |-> sources],
                               validation_result)
    /\ UNCHANGED << system_initialized, config, pc, frame, retriever_vars,
                    graph_vars, graph_connected, executor_initialized,
                    task_history, input, client_vars >>

\* The one validate_reasoning_chain call of a single-call behaviour.
ValidateReasoningChain ==
    /\ input.op = "validate_reasoning_chain"
    /\ last = NoCall
    /\ ValidateChain(input.reasoning_steps)

\* The one validate_mathematical_computation call of a single-call behaviour.
ValidateMathematical ==
    /\ input.op = "validate_mathematical_computation"
    /\ last = NoCall
    /\ ValidateMathematicalComputation(input.expression, input.expected_result)

\* The one perform_cross_validation call of a single-call behaviour.
CrossValidate ==
    /\ input.op = "perform_cross_validation"
    /\ last = NoCall
    /\ PerformCrossValidation(input.facts, input.sources)

\* AnswerGenerator.generate_answer(...)
GenerateAnswer ==
    /\ input.op = "generate_answer"
    /\ last = NoCall
    /\ last' = Returned("generate_answer", input,
                        generate_answer(input.question_id, input.answer,
                                        input.question_type, input.confidence,
                                        input.evidence, input.reasoning_steps))
    /\ UNCHANGED << system_initialized, config, pc, frame, calls, retriever_vars,
                    graph_vars, graph_connected, executor_initialized,
                    task_history, validation_history, input, client_vars >>

NextCalls ==
    \/ ValidateReasoningChain
    \/ ValidateMathematical
    \/ CrossValidate
    \/ GenerateAnswer

SpecCalls == InitCalls /\ [][NextCalls]_vars

\* ------------------------------------------------------------- planner alone
\* Most fragments a question is put together from.
MaxWords == 3
\* Fragments of questions: the interrogatives in either case, pieces that form an
\* interrogative only across a join, and filler.
QuestionTokens ==
    { <<"w", "h", "o">>, <<"W", "h", "O">>, <<"w", "h", "a", "t">>,
      <<"W", "H", "A", "T">>, <<"h", "o", "w">>, <<"H", "o", "W">>,
      <<"w", "h", "y">>, <<"W", "H", "Y">>, <<"w", "h">>, <<"o">>, <<"a", "t">>,
      <<"?">> }
RECURSIVE Concat(_)
Concat(parts) == IF parts = << >> THEN << >> ELSE Head(parts) \o Concat(Tail(parts))
PlannerQuestions == {Concat(parts) : parts \in ListsOf(QuestionTokens, MaxWords)}

\* Parsed questions handed to decompose_task directly, of any question_type.
ParsedInputs ==
    {[ original_question |-> QOther, entities |-> << >>, relations |-> << >>,
       question_type |-> t ] : t \in QuestionTypes}

PlannerInputs ==
    {[op |-> "parse_question", question |-> q] : q \in PlannerQuestions}
    \cup {[op |-> "decompose_task", parsed_question |-> p] : p \in ParsedInputs}

\* PlannerAgent(): an empty task history, and the call to make.
InitPlanner ==
    /\ AgentFresh /\ ConsoleFresh /\ RetrieverFresh /\ GraphFresh /\ OthersFresh
    /\ config = [top_k_retrieval |-> DefaultTopK]
    /\ input \in PlannerInputs

\* PlannerAgent.parse_question(question)
ParseQuestion ==
    /\ input.op = "parse_question"
    /\ last = NoCall
    /\ last' = Returned("parse_question", input.question, parse_question(input.question))
    /\ UNCHANGED << system_initialized, config, pc, frame, calls, retriever_vars,
                    graph_vars, graph_connected, executor_initialized,
                    task_history, validation_history, input, client_vars >>

\* The parsed questions decompose_task can be called with: the one handed in, or
\* the one parse_question just returned.
DecomposeArgs ==
    (IF input.op = "decompose_task" /\ last = NoCall THEN {input.parsed_question} ELSE {})
    \cup (IF last.op = "parse_question" THEN {last.value} ELSE {})

\* PlannerAgent.decompose_task(parsed_question)
DecomposeTask(parsed_question) ==
    /\ LET sub_tasks == SubTasksOf(parsed_question)
       IN  /\ task_history' = Append(task_history,
                                     [question |-> parsed_question.original_question,
                                      sub_tasks |-> sub_tasks])
           /\ last' = Returned("decompose_task", parsed_question, sub_tasks)
    /\ UNCHANGED << system_initialized, config, pc, frame, calls, retriever_vars,
                    graph_vars, graph_connected, executor_initialized,
                    validation_history, input, client_vars >>

NextPlanner ==
    \/ ParseQuestion
    \/ \E parsed_question \in DecomposeArgs : DecomposeTask(parsed_question)

SpecPlanner == InitPlanner /\ [][NextPlanner]_vars

\* --------------------------------------------------------------- reasoner alone
\* Longest entity list handed to perform_multi_hop_reasoning.
MaxEntities == 3
\* max_hops: int = 3
DefaultMaxHops == 3
EntityNames == {"Albert Einstein", "Princeton University", "Marie Curie", "Radium", "Ulm"}
EntityLists == ListsOf(EntityNames, MaxEntities)

\* The Cypher text find_path_between_entities builds:
\* MATCH path = shortestPath((s {name: source})-[*1..max_hops]-(t {name: target}))
PathQuery(source_entity, target_entity, max_hops) ==
    [ match |-> "shortestPath", source |-> source_entity, target |-> target_entity,
      min_hops |-> 1, max_hops |-> max_hops ]
\* The Cypher text of the single-entity branch: MATCH (e {name: entity}) RETURN e
LookupQuery(entity) ==
    [ match |-> "node", source |-> entity, target |-> entity, min_hops |-> 0,
      max_hops |-> 0 ]
\* The entity names a query text holds.
QueryNames(query) == {query.source, query.target}
CypherQueries ==
    {PathQuery(a, b, h) : a \in EntityNames, b \in EntityNames, h \in {1, DefaultMaxHops}}
    \cup {LookupQuery(a) : a \in EntityNames}

\* The queries perform_multi_hop_reasoning executes for a non-empty entity list.
ReasoningQueries(entities) ==
    IF Len(entities) >= 2
    THEN <<PathQuery(entities[1], entities[Len(entities)], DefaultMaxHops)>>
    ELSE <<LookupQuery(entities[1])>>

ExcNotConnected == Exc("ValueError", "Not connected to graph. Call connect_to_graph() first.")
\* entities[0] of an empty list.
ExcIndexError == Exc("IndexError", "list index out of range")

\* A completed reasoner call: the outcome, and the queries it executed (each is
\* printed by execute_cypher_query).
ReasonerReturned(op, args, value, executed) ==
    [op |-> op, args |-> args, raised |-> FALSE, value |-> value, executed |-> executed]
ReasonerRaised(op, args, e, executed) ==
    [op |-> op, args |-> args, raised |-> TRUE, value |-> e, executed |-> executed]

reasoner_frame == << system_initialized, config, pc, frame, retriever_vars, graph_vars,
                     executor_initialized, task_history, validation_history, input,
                     client_vars >>

\* Reasoner(): not connected.
InitReasoner ==
    /\ AgentFresh /\ ConsoleFresh /\ RetrieverFresh /\ GraphFresh /\ OthersFresh
    /\ config = [top_k_retrieval |-> DefaultTopK]
    /\ input = NoInput

\* Reasoner.connect_to_graph()
ConnectToGraph ==
    /\ pc = "idle"
    /\ graph_connected' = TRUE
    /\ UNCHANGED << reasoner_frame, calls, last >>

\* Reasoner.execute_cypher_query(query)
ExecuteCypherQuery(query) ==
    /\ pc = "idle"
    /\ calls < MaxCalls
    /\ calls' = calls + 1
    /\ last' = IF ~graph_connected
               THEN ReasonerRaised("execute_cypher_query", query, ExcNotConnected, << >>)
               ELSE ReasonerReturned("execute_cypher_query", query,
                                     execute_cypher_query(QueryNames(query)), <<query>>)
    /\ UNCHANGED << reasoner_frame, graph_connected >>

\* A find_path_between_entities that does not connect by itself.
FindPathWithoutAutoConnect(source_entity, target_entity, max_hops) ==
    /\ pc = "idle"
    /\ calls < MaxCalls
    /\ calls' = calls + 1
    /\ LET args == [source_entity |-> source_entity, target_entity |-> target_entity,
                    max_hops |-> max_hops]
       IN  last' = IF ~graph_connected
                   THEN ReasonerRaised("find_path_between_entities", args,
                                       ExcNotConnected, << >>)
                   ELSE ReasonerReturned(
                            "find_path_between_entities", args,
                            find_path_between_entities(source_entity, target_entity, max_hops),
                            <<PathQuery(source_entity, target_entity, max_hops)>>)
    /\ UNCHANGED << reasoner_frame, graph_connected >>

\* Reasoner.find_path_between_entities(source_entity, target_entity, max_hops)
FindPathBetweenEntities(source_entity, target_entity, max_hops) ==
    /\ pc = "idle"
    /\ calls < MaxCalls
    /\ calls' = calls + 1
    /\ graph_connected' = TRUE
    /\ last' = ReasonerReturned(
                   "find_path_between_entities",
                   [source_entity |-> source_entity, target_entity |-> target_entity,
                    max_hops |-> max_hops],
                   find_path_between_entities(source_entity, target_entity, max_hops),
                   <<PathQuery(source_entity, target_entity, max_hops)>>)
    /\ UNCHANGED reasoner_frame

\* Reasoner.perform_multi_hop_reasoning(entities, relations): entities[0] of an
\* empty list raises IndexError, after the connection was made.
PerformMultiHopReasoning(entities, relations) ==
    /\ pc = "idle"
    /\ calls < MaxCalls
    /\ calls' = calls + 1
    /\ graph_connected' = TRUE
    /\ LET args == [entities |-> entities, relations |-> relations]
       IN  last' = IF entities = << >>
                   THEN ReasonerRaised("perform_multi_hop_reasoning", args,
                                       ExcIndexError, << >>)
                   ELSE ReasonerReturned("perform_multi_hop_reasoning", args,
                                         perform_multi_hop_reasoning(entities, relations),
                                         ReasoningQueries(entities))
    /\ UNCHANGED reasoner_frame

\* The reasoner called directly, and the reasoner as process_question uses it, on
\* an agent that is initialized once.
NextReasoner ==
    \/ ConnectToGraph
    \/ \E query \in CypherQueries : ExecuteCypherQuery(query)
    \/ \E a \in EntityNames, b \in EntityNames, h \in {1, DefaultMaxHops} :
           FindPathBetweenEntities(a, b, h)
    \/ \E entities \in EntityLists : PerformMultiHopReasoning(entities, << >>)
    \/ (~system_initialized /\ InitializeSystem(Some(<<DocEinstein>>)))
    \/ \E question \in {QWho, QOther} : ProcessQuestionCall(question, "q1")
    \/ StageDecompose
    \/ StageRetrieve
    \/ StageDedup
    \/ StageBuildGraph
    \/ StageReason
    \/ StageValidate
    \/ StageExecute
    \/ StageSynthesize

SpecReasoner == InitReasoner /\ [][NextReasoner]_vars

\* --------------------------------------------------------------- validator alone
FactSanctioned == <<"S", "a", "n", "c", "t", "i", "o", "n", "e", "d">>
FactClean == <<"o", "k">>
FactTypes == {"ofac_sanctions", "sec_filings", "other"}
\* Calls of validate_mathematical_computation: a match, a mismatch, a failing eval.
MathCases ==
    { <<Expr("add", 1, 1), Num(Rat(2, 1))>>, <<Expr("add", 1, 1), Num(Rat(3, 1))>>,
      <<Expr("div", 1, 0), Num(Rat(1, 1))>> }
CrossFacts == { << >>, <<FactClean, FactClean>>, <<FactClean, FactSanctioned>> }
ChainCases == { << >>, <<[confidence |-> Milli(900)]>> }

\* Validator(): an empty validation history.
InitValidator ==
    /\ AgentFresh /\ ConsoleFresh /\ RetrieverFresh /\ GraphFresh /\ OthersFresh
    /\ config = [top_k_retrieval |-> DefaultTopK]
    /\ input = NoInput

NextValidator ==
    \/ \E c \in MathCases : ValidateMathematicalComputation(c[1], c[2])
    \/ \E fact \in {FactSanctioned, FactClean}, fact_type \in FactTypes :
           ValidateExternalFact(fact, fact_type)
    \/ \E facts \in CrossFacts : PerformCrossValidation(facts, <<"s1", "s2">>)
    \/ \E reasoning_steps \in ChainCases : ValidateChain(reasoning_steps)

SpecValidator == InitValidator /\ [][NextValidator]_vars

\* ------------------------------------------------- the pipeline over long lists
\* Document lists for initialize_system that reach past the three evidence slots:
\* with repeated documents, with two documents of one doc_id, with four and five
\* distinct documents.
EvidenceDocLists ==
    { <<DocEinstein>>,
      <<DocPlain, DocPlainAlt, DocCurie>>,
      <<DocPlain, DocPlain, DocEinstein, DocPlain>>,
      <<DocEinstein, DocCurie, DocPlain, DocShort>>,
      <<DocPlainAlt, DocEinstein, DocPlain, DocCurie, DocShort>>,
      <<DocShort, DocShort, DocCurie, DocEinstein, DocPlainAlt>> }

\* Between 1 and MaxTopK + 2 results per search, and the default 5.
PipelineTopKs == (1..(MaxTopK + 2)) \cup {DefaultTopK}

\* MultiHopAgent(config), with top_k_retrieval from 1 up.
InitPipeline ==
    /\ AgentFresh /\ ConsoleFresh /\ RetrieverFresh /\ GraphFresh /\ OthersFresh
    /\ config \in {[top_k_retrieval |-> k] : k \in PipelineTopKs}
    /\ input = NoInput

\* One agent, initialized over a long list, answering questions without faults.
NextPipeline ==
    \/ \E docs \in EvidenceDocLists : InitializeSystem(Some(docs))
    \/ \E question \in Questions : ProcessQuestionCall(question, "q1")
    \/ StageDecompose
    \/ StageRetrieve
    \/ StageDedup
    \/ StageBuildGraph
    \/ StageReason
    \/ StageValidate
    \/ StageExecute
    \/ StageSynthesize

SpecPipeline == InitPipeline /\ [][NextPipeline]_vars

\* ------------------------------------------------------------------ batches
\* Longest list handed to process_questions_batch.
MaxBatch == 2
\* dict.get(key, default)
DictGet(d, key, default) == IF key \in DOMAIN d THEN d[key] ELSE default
\* The question_data dicts: two with both keys, and the empty dict.
QuestionData ==
    { [question |-> QWho, id |-> "q1"], [question |-> QOther, id |-> "q2"], << >> }
BatchInputs == ListsOf(QuestionData, MaxBatch)

\* A result list with the newest result in front.
BatchPrepend(results, result) == <<result>> \o results
\* results.append(result)
BatchAppend(results, result) == Append(results, result)

\* The frame process_question starts with for one question_data of the batch.
BatchFrame(question_data) ==
    [ question |-> DictGet(question_data, "question", << >>),
      question_id |-> DictGet(question_data, "id", "unknown") ]

InitBatch ==
    /\ AgentFresh /\ ConsoleFresh /\ RetrieverFresh /\ GraphFresh /\ OthersFresh
    /\ config = [top_k_retrieval |-> DefaultTopK]
    /\ input = NoInput

\* process_questions_batch(questions) up to its first process_question: an empty
\* list returns [], the guard of process_question raises through the loop to the
\* caller, and otherwise the pipeline starts for the first question.
BatchCall(questions) ==
    /\ pc = "idle"
    /\ ~batch.active
    /\ calls < MaxCalls
    /\ calls' = calls + 1
    /\ IF questions = << >>
       THEN /\ last' = Returned("process_questions_batch", [questions |-> questions], << >>)
            /\ UNCHANGED << pc, frame, batch >>
       ELSE IF ~system_initialized
       THEN /\ last' = Raised("process_questions_batch", [questions |-> questions],
                              ExcNotInitialized)
            /\ UNCHANGED << pc, frame, batch >>
       ELSE /\ batch' = [active |-> TRUE, questions |-> questions, results |-> << >>]
            /\ pc' = "decompose"
            /\ frame' = BatchFrame(questions[1])
            /\ UNCHANGED last
    /\ UNCHANGED << system_initialized, config, retriever_vars, graph_vars,
                    graph_connected, executor_initialized, task_history,
                    validation_history, input, history, history_file >>

\* The loop of process_questions_batch after a process_question came back: what
\* it raised reaches the caller; what it returned is appended, and the loop goes
\* on to the next question or returns the results.
BatchCollect ==
    /\ batch.active
    /\ pc = "idle"
    /\ IF last.raised
       THEN /\ last' = Raised("process_questions_batch", [questions |-> batch.questions],
                              last.value)
            /\ batch' = NoBatch
            /\ UNCHANGED << pc, frame >>
       ELSE LET results == BatchAppend(batch.results, last.value)
            IN  IF Len(results) = Len(batch.questions)
                THEN /\ last' = Returned("process_questions_batch",
                                         [questions |-> batch.questions], results)
                     /\ batch' = NoBatch
                     /\ UNCHANGED << pc, frame >>
                ELSE /\ batch' = [batch EXCEPT !.results = results]
                     /\ pc' = "decompose"
                     /\ frame' = BatchFrame(batch.questions[Len(results) + 1])
                     /\ UNCHANGED last
    /\ UNCHANGED << system_initialized, config, retriever_vars, graph_vars,
                    graph_connected, executor_initialized, task_history,
                    validation_history, calls, input, history, history_file >>

NextBatch ==
    \/ \E docs \in {None, Some(<<DocEinstein>>)} :
           (~system_initialized /\ ~batch.active /\ InitializeSystem(docs))
    \/ \E questions \in BatchInputs : BatchCall(questions)
    \/ BatchCollect
    \/ StageDecompose
    \/ StageRetrieve
    \/ StageDedup
    \/ StageBuildGraph
    \/ StageReason
    \/ StageValidate
    \/ StageExecute
    \/ StageSynthesize
    \/ StageRaises

SpecBatch == InitBatch /\ [][NextBatch]_vars

\* ---------------------------------------------------------- API retry helper
DefaultMaxRetries == 3
\* Largest max_retries handed to call_api.
MaxRetries == 3
\* What one requests.post / raise_for_status / response.json() can do: deliver a
\* JSON object with or without the key "answer", or raise.
Replies ==
    { [raised |-> FALSE, json |-> [answer |-> <<"Ulm">>]],
      [raised |-> FALSE, json |-> << >>],
      [raised |-> TRUE, json |-> << >>, exc |-> Exc("Timeout", "Read timed out.")],
      [raised |-> TRUE, json |-> << >>, exc |-> Exc("HTTPError", "500 Server Error")] }
ApiInputs ==
    { [op |-> "call_api", question |-> q, use_mcp |-> m, max_retries |-> n] :
          q \in Questions, m \in BOOLEAN,
          n \in (-1..MaxRetries) \cup {DefaultMaxRetries} }

InitApi ==
    /\ AgentFresh /\ ConsoleFresh /\ RetrieverFresh /\ GraphFresh /\ OthersFresh
    /\ config = [top_k_retrieval |-> DefaultTopK]
    /\ input \in ApiInputs

\* The record of a call_api call that came back: its value (a string, or Python's
\* None) and the number of requests it sent.
ApiReturned(value, attempts) ==
    [ op |-> "call_api",
      args |-> [question |-> input.question, use_mcp |-> input.use_mcp,
                max_retries |-> input.max_retries],
      raised |-> FALSE, value |-> value, attempts |-> attempts ]

\* call_api(question, use_mcp, max_retries) up to its first request: the loop over
\* range(max_retries) has no iteration when max_retries <= 0, and the function
\* then ends without a return statement.
CallApi ==
    /\ pc = "idle"
    /\ input.op = "call_api"
    /\ last.op = "none"
    /\ IF input.max_retries <= 0
       THEN /\ last' = ApiReturned(None, 0)
            /\ UNCHANGED << pc, frame >>
       ELSE /\ pc' = "attempt"
            /\ frame' = [attempt |-> 0]
            /\ UNCHANGED last
    /\ UNCHANGED << system_initialized, config, retriever_vars, graph_vars,
                    graph_connected, executor_initialized, task_history,
                    validation_history, calls, input, client_vars >>

\* One iteration of the loop: the request and what the try block does with its
\* reply.
ApiAttempt(reply) ==
    /\ pc = "attempt"
    /\ IF ~reply.raised
       THEN /\ last' = ApiReturned(Some(DictGet(reply.json, "answer", << >>)),
                                   frame.attempt + 1)
            /\ pc' = "idle"
            /\ frame' = IdleFrame
       ELSE IF frame.attempt < input.max_retries - 1
       THEN /\ frame' = [attempt |-> frame.attempt + 1]
            /\ UNCHANGED << pc, last >>
       ELSE /\ last' = ApiReturned(Some(<<"Error: ", reply.exc.msg>>), frame.attempt + 1)
            /\ pc' = "idle"
            /\ frame' = IdleFrame
    /\ UNCHANGED << system_initialized, config, retriever_vars, graph_vars,
                    graph_connected, executor_initialized, task_history,
                    validation_history, calls, input, client_vars >>

NextApi ==
    \/ CallApi
    \/ \E reply \in Replies : ApiAttempt(reply)

SpecApi == InitApi /\ [][NextApi]_vars

\* ------------------------------------------------------------------ console
\* The number of entries _save_history writes at most.
HistoryCap == 50
\* history[-n:] of a Python list, n > 0.
LastN(entries, n) == SubSeq(entries, Max(Len(entries) - n, 0) + 1, Len(entries))
\* An entry of the history; the timestamp counts the questions asked so far.
HistoryEntry(question, answer, timestamp) ==
    [question |-> question, answer |-> answer, timestamp |-> timestamp]
\* The history n earlier questions left, newest first as insert(0, ...) keeps it.
EarlierHistory(n) == [i \in 1..n |-> HistoryEntry(QOther, <<"old">>, n + 1 - i)]
\* The history files earlier sessions can have left: none, or what _save_history
\* wrote after so many questions.
StoredHistories ==
    {None} \cup {Some(EarlierHistory(n)) : n \in {0, 1, HistoryCap - 2, HistoryCap - 1, HistoryCap}}
\* What _call_llm hands back as the answer: the model's answer, or its error text.
LlmAnswers == {<<"Ulm">>, <<"Error: ", "Read timed out.">>}

\* MultiHopConsole(config_path): _load_history reads the file when there is one.
InitConsole ==
    /\ AgentFresh /\ RetrieverFresh /\ GraphFresh /\ OthersFresh
    /\ config = [top_k_retrieval |-> DefaultTopK]
    /\ input = NoInput
    /\ history_file \in StoredHistories
    /\ history = OrEmpty(history_file)

\* MultiHopConsole.process_question(question): the entry is inserted in front of
\* the history and _save_history writes history[-50:] to the file.
ConsoleProcessQuestion(question, answer) ==
    /\ pc = "idle"
    /\ calls < MaxCalls
    /\ calls' = calls + 1
    /\ history' = <<HistoryEntry(question, answer, Len(history) + 1)>> \o history
    /\ history_file' = Some(LastN(history', HistoryCap))
    /\ last' = Returned("console_process_question", [question |-> question], None)
    /\ UNCHANGED << system_initialized, config, retriever_vars, graph_vars,
                    graph_connected, executor_initialized, task_history,
                    validation_history, pc, frame, input, batch >>

NextConsole ==
    \E question \in Questions, answer \in LlmAnswers :
        ConsoleProcessQuestion(question, answer)

SpecConsole == InitConsole /\ [][NextConsole]_vars

\* ------------------------------------------- validation and synthesis alone
\* Steps 5 to 7 of process_question as a function of the reasoning result Step 4
\* hands them: the call stands after Step 4, its reasoning result drawn from
\* dicts of every confidence the reasoner interface allows, in hundredths.
Confidences == {Rat(c, 100) : c \in {0, 50, 60, 70, 71, 72, 75, 76, 80, 83, 84, 85, 90, 100}}
ReasoningResults ==
    {FallbackResult}
        \cup {[reasoning_type |-> "multi_hop", answer |-> "reasoned", confidence |-> r] :
                  r \in Confidences}
\* The locals of process_question after Step 4, for a question over docs.
FrameAfterReasoning(question, docs, reasoning_result) ==
    LET parsed == parse_question(question)
        sub_tasks == SubTasksOf(parsed)
        retrieved == [i \in 1..Len(sub_tasks) |-> DocumentsOf(hybrid_results(docs, DefaultTopK))]
        all_retrieved_docs == IF Len(sub_tasks) = 1 THEN retrieved[1]
                              ELSE retrieved[1] \o retrieved[2]
        unique_docs == UniqueDocs(all_retrieved_docs)
    IN  [ question |-> question, question_id |-> "q1", parsed_question |-> parsed,
          sub_tasks |-> sub_tasks, next_task |-> Len(sub_tasks) + 1,
          all_retrieved_docs |-> all_retrieved_docs,
          dispatched |-> [i \in 1..Len(sub_tasks) |-> sub_tasks[i].task_id],
          unique_docs |-> unique_docs, triples |-> AllTriples(unique_docs),
          reasoning_result |-> reasoning_result ]

InitSynthesis ==
    /\ ConsoleFresh
    /\ batch = NoBatch
    /\ config = [top_k_retrieval |-> DefaultTopK]
    /\ input = NoInput
    /\ system_initialized = TRUE
    /\ documents \in {<<DocEinstein>>, <<DocPlain, DocCurie>>}
    /\ index_built = TRUE /\ model_loaded = TRUE
    /\ graph_connected = TRUE /\ executor_initialized = TRUE
    /\ validation_history = << >>
    /\ calls = MaxCalls
    /\ last = NoCall
    /\ pc = "validate"
    /\ \E question \in Questions, reasoning_result \in ReasoningResults :
           frame = FrameAfterReasoning(question, documents, reasoning_result)
    /\ task_history = <<[question |-> frame.question, sub_tasks |-> frame.sub_tasks]>>
    /\ graph_initialized = TRUE
    /\ graph = StoreAll(EmptyGraph, frame.triples)
    /\ issued = IssueAll(<< >>, frame.triples)

NextSynthesis ==
    \/ StageValidate
    \/ StageExecute
    \/ StageSynthesize

SpecSynthesis == InitSynthesis /\ [][NextSynthesis]_vars

\* ================================================================== claims
PQReturned == last.op = "process_question" /\ ~last.raised
\* An Answer: a dict with the six fields every Answer carries.
IsStructuredAnswer(a) ==
    {"question_id", "answer", "answer_type", "confidence", "evidence",
     "reasoning_steps"} \subseteq DOMAIN a
\* The error Answer for exception message msg, spelled out field by field.
IsErrorAnswerFor(a, question_id, msg) ==
    /\ DOMAIN a = {"question_id", "answer", "answer_type", "confidence", "evidence",
                   "reasoning_steps", "error"}
    /\ a.question_id = question_id
    /\ a.answer = <<"Error: ", msg>>
    /\ a.answer_type = "error"
    /\ a.confidence = Zero
    /\ a.evidence = << >>
    /\ a.reasoning_steps = << >>
    /\ a.error = msg

\* A step in which the retriever's own exception leaves hybrid_search.
RetrieverRaisesStep ==
    /\ pc = "retrieve"
    /\ ~(index_built /\ model_loaded)
    /\ StageRetrieve
\* The message of the exception a raising step raises.
RaisedMessage ==
    IF StageRaises THEN FaultMessage(pc)
    ELSE IF ~index_built THEN ExcIndexNotBuilt.msg ELSE ExcModelNotLoaded.msg

\* C1: whenever a stage inside the try block of process_question raises (the
\* retriever's not-built error, or a fault of the component the stage calls), the
\* call returns to its caller, and what it returns is the error Answer: answer_type
\* "error", confidence 0.0, empty evidence and reasoning_steps, and the exception's
\* message in the answer text.
C1_StageFaultYieldsErrorAnswer ==
    [][ (StageRaises \/ RetrieverRaisesStep) =>
            /\ last'.op = "process_question"
            /\ ~last'.raised
            /\ pc' = "idle"
            /\ IsErrorAnswerFor(last'.value, frame.question_id, RaisedMessage) ]_vars

\* C1 witness: an initialized agent returned the error Answer for a fault of a late
\* stage, and the retriever's own error is reachable too (checked by the next one).
C1_Witness ==
    /\ PQReturned
    /\ system_initialized
    /\ last.value.answer_type = "error"
    /\ last.value.error = "validator failed"

\* C2 as stated: every process_question call returns a structured Answer and never
\* raises to its caller, whatever the state of the agent.
C2_AlwaysReturnsAnswer ==
    last.op = "process_question" => (~last.raised /\ IsStructuredAnswer(last.value))

\* A process_question call made before initialize_system.
UninitializedCallStep ==
    /\ ~system_initialized
    /\ \E question \in Questions, question_id \in QuestionIds :
           ProcessQuestionCall(question, question_id)

\* C2 amended: a process_question call on an agent whose initialize_system has
\* completed (with or without documents) ends by returning a structured Answer and
\* never raises to its caller; a call before initialize_system raises
\* ValueError("System not initialized...") to the caller and starts no pipeline.
C2_InitializedCallReturnsAnswer ==
    [][ /\ (pc # "idle" /\ pc' = "idle") =>
              /\ system_initialized
              /\ last'.op = "process_question"
              /\ ~last'.raised
              /\ IsStructuredAnswer(last'.value)
        /\ (pc # "idle" /\ pc' # "idle") => (system_initialized /\ last' = last)
        /\ UninitializedCallStep =>
              /\ last'.op = "process_question"
              /\ last'.raised
              /\ last'.value = ExcNotInitialized
              /\ pc' = "idle" ]_vars

\* C2 witness: initialized without documents, the call came back with an Answer
\* (the error Answer for the retriever's not-built error).
C2_Witness ==
    /\ PQReturned
    /\ system_initialized
    /\ ~index_built
    /\ IsStructuredAnswer(last.value)
    /\ last.value.answer_type = "error"
    /\ last.value.error = ExcIndexNotBuilt.msg

\* C3: in every Answer process_question synthesizes (every non-error Answer) the
\* confidence field equals the product of the confidence of the reasoning result
\* and the confidence of the chain-validation result, the two reasoning_steps.
C3_ConfidenceIsProduct ==
    (PQReturned /\ last.value.answer_type # "error") =>
        /\ Len(last.value.reasoning_steps) = 2
        /\ last.value.confidence =
               RatMul(last.value.reasoning_steps[1].confidence,
                      last.value.reasoning_steps[2].confidence)

\* C3 witness: a synthesized Answer over retrieved evidence.
C3_Witness ==
    /\ PQReturned
    /\ last.value.answer_type # "error"
    /\ last.value.evidence # << >>
    /\ last.value.reasoning_steps[1].confidence = Milli(600)

\* C4 as stated: in every Answer of generate_answer, validation_status is
\* "validated" iff the confidence reported in that Answer is > 0.7, and
\* "needs_review" otherwise.
C4_StatusMatchesReportedConfidence ==
    last.op = "generate_answer" =>
        /\ last.value.validation_status \in {"validated", "needs_review"}
        /\ (last.value.validation_status = "validated")
               <=> RatGT(last.value.confidence, Milli(700))

\* The doc_ids of a result list, and whether no two results share one.
DocIdsOf(results) == {results[i].doc_id : i \in 1..Len(results)}
DistinctDocIds(results) ==
    \A i, j \in 1..Len(results) : i # j => results[i].doc_id # results[j].doc_id
SearchReturned == last.op = "hybrid_search" /\ ~last.raised

\* C5: every hybrid_search with top_k >= 1 that returns, returns at most top_k
\* results, no two with the same doc_id, whatever list the retriever holds.
C5_AtMostTopKDistinct ==
    (SearchReturned /\ last.args.top_k >= 1) =>
        /\ Len(last.value) <= last.args.top_k
        /\ DistinctDocIds(last.value)

\* C5 witness: a search with top_k >= 2 over a list whose first two documents
\* differ and share a doc_id returned, with the second of them dropped.
C5_Witness ==
    /\ SearchReturned
    /\ last.args.top_k >= 2
    /\ Len(last.args.documents) >= 2
    /\ last.args.documents[1] # last.args.documents[2]
    /\ DocId(last.args.documents[1]) = DocId(last.args.documents[2])
    /\ Len(last.value) >= 1
    /\ Len(last.value) < last.args.top_k

\* The chain a validate_reasoning_chain call was given, as integers (thousandths).
ChainReturned == last.op = "validate_reasoning_chain" /\ ~last.raised
MilliOf(step) ==
    IF "confidence" \in DOMAIN step
    THEN (step.confidence.num * 1000) \div step.confidence.den ELSE 0
RECURSIVE SumMilli(_)
SumMilli(steps) == IF steps = << >> THEN 0 ELSE MilliOf(Head(steps)) + SumMilli(Tail(steps))
AllAtMost700(steps) == \A i \in 1..Len(steps) : MilliOf(steps[i]) <= 700
AllAbove700(steps) == \A i \in 1..Len(steps) : MilliOf(steps[i]) > 700

\* C6 as stated: for every chain, the empty one included, whose steps all have
\* confidence <= 0.7, the result has is_consistent = false and confidence 0.0.
C6_WeakChainInconsistent ==
    (ChainReturned /\ AllAtMost700(last.args)) =>
        (~last.value.is_consistent /\ last.value.confidence = Zero)

\* C6 amended: for every non-empty chain whose steps all have confidence <= 0.7
\* the result has is_consistent = false and confidence 0.0; for the empty chain
\* the confidence is 0.0 too, but is_consistent is true.
C6_NonEmptyWeakChainInconsistent ==
    (ChainReturned /\ AllAtMost700(last.args)) =>
        /\ last.value.confidence = Zero
        /\ last.value.is_consistent <=> (last.args = << >>)

\* C6 witness: a two-step chain with a step at exactly 0.7 and a step without a
\* confidence was validated.
C6_Witness ==
    /\ ChainReturned
    /\ Len(last.args) = 2
    /\ AllAtMost700(last.args)
    /\ \E i \in 1..2 : MilliOf(last.args[i]) = 700
    /\ \E i \in 1..2 : "confidence" \notin DOMAIN last.args[i]

\* C7: validate_reasoning_chain([]) returns (nothing is raised) a result with
\* confidence 0.0 and is_valid = false, and the history holds that result.
C7_EmptyChain ==
    (input.op = "validate_reasoning_chain" /\ input.reasoning_steps = << >>
        /\ last # NoCall) =>
        /\ ChainReturned
        /\ last.value.confidence = Zero
        /\ last.value.average_confidence = Zero
        /\ ~last.value.is_valid
        /\ validation_history = <<last.value>>

\* C7 witness: the empty chain was validated.
C7_Witness == ChainReturned /\ last.args = << >>

\* C8: is_consistent iff every step's confidence (0.0 when absent) is > 0.7;
\* is_valid iff is_consistent and the mean is > 0.75; confidence is the mean when
\* is_consistent and 0.0 otherwise (the mean of the empty chain being 0.0); and
\* the chain [0.9, 0.95] is consistent, valid, with confidence 0.925.
C8_ChainVerdict ==
    ChainReturned =>
        LET steps == last.args
            n == Len(steps)
            total == SumMilli(steps)
        IN  /\ last.value.is_consistent <=> AllAbove700(steps)
            /\ last.value.is_valid <=> (AllAbove700(steps) /\ total > 750 * n)
            /\ last.value.confidence.num * 1000 * n =
                   (IF AllAbove700(steps) THEN total ELSE 0) * last.value.confidence.den
            /\ (~AllAbove700(steps) \/ n = 0) => last.value.confidence = Zero
            /\ steps = <<[confidence |-> Milli(900)], [confidence |-> Milli(950)]>> =>
                   /\ last.value.is_consistent
                   /\ last.value.is_valid
                   /\ last.value.confidence = Milli(925)

\* C8 witness: the chain [0.9, 0.95] was validated, and came out at 0.925.
C8_Witness ==
    /\ ChainReturned
    /\ last.args = <<[confidence |-> Milli(900)], [confidence |-> Milli(950)]>>
    /\ last.value.confidence = Milli(925)

C10_DedupIdempotent ==
    SearchReturned =>
        LET combined == CombinedResults(last.args.documents, last.args.top_k)
        IN  /\ DedupByDocId(combined \o combined) = DedupByDocId(combined)
            /\ DocIdsOf(DedupByDocId(combined \o combined)) = DocIdsOf(combined)
            /\ DedupByDocId(last.value \o last.value) = DedupByDocId(last.value)
            /\ DedupByDocId(DedupByDocId(combined)) = DedupByDocId(combined)

\* C10 witness: a search that returned two results or more, from a combined list
\* that held duplicates.
C10_Witness ==
    /\ SearchReturned
    /\ Len(last.value) >= 2
    /\ Len(CombinedResults(last.args.documents, last.args.top_k))
           > Len(DedupByDocId(CombinedResults(last.args.documents, last.args.top_k)))

\* Whether word (lower case) occurs in question when case is ignored, character by
\* character.
SameLetter(c, lower) ==
    \/ c = lower
    \/ <<c, lower>> \in {<<"W", "w">>, <<"H", "h">>, <<"O", "o">>, <<"A", "a">>,
                         <<"T", "t">>, <<"Y", "y">>}
HasWord(question, word) ==
    \E i \in 1..(Len(question) - Len(word) + 1) :
        \A j \in 1..Len(word) : SameLetter(question[i + j - 1], word[j])
ParseReturned == last.op = "parse_question" /\ ~last.raised

\* C11: the class of every question is decided by the first rule that matches
\* its text, case ignored: "who" gives entity_identification; else "what" gives
\* fact_retrieval; else "how" or "why" gives causal_reasoning; else general.  Every
\* question gets exactly one of the four classes, and parse_question never raises.
C11_FirstMatchWins ==
    (input.op = "parse_question" /\ last # NoCall /\ last.op = "parse_question") =>
        LET q == last.args
            class == last.value.question_type
        IN  /\ ~last.raised
            /\ class \in {"entity_identification", "fact_retrieval",
                          "causal_reasoning", "general"}
            /\ HasWord(q, <<"w", "h", "o">>) => class = "entity_identification"
            /\ (~HasWord(q, <<"w", "h", "o">>) /\ HasWord(q, <<"w", "h", "a", "t">>))
                   => class = "fact_retrieval"
            /\ (~HasWord(q, <<"w", "h", "o">>) /\ ~HasWord(q, <<"w", "h", "a", "t">>)
                  /\ (HasWord(q, <<"h", "o", "w">>) \/ HasWord(q, <<"w", "h", "y">>)))
                   => class = "causal_reasoning"
            /\ (~HasWord(q, <<"w", "h", "o">>) /\ ~HasWord(q, <<"w", "h", "a", "t">>)
                  /\ ~HasWord(q, <<"h", "o", "w">>) /\ ~HasWord(q, <<"w", "h", "y">>))
                   => class = "general"

\* C11 witness: a question holding both "WHAT" (upper case) and, after it, "who"
\* was classified entity_identification.
C11_Witness ==
    /\ ParseReturned
    /\ last.args = <<"W", "H", "A", "T", "w", "h", "o">>
    /\ last.value.question_type = "entity_identification"

DecomposeReturned == last.op = "decompose_task" /\ ~last.raised
\* The task_ids of a sub-task list, in order.
TaskIds(sub_tasks) == [i \in 1..Len(sub_tasks) |-> sub_tasks[i].task_id]
\* Every dependency of every sub-task names a sub-task of the list with a smaller id.
DependenciesWellFounded(sub_tasks) ==
    \A i \in 1..Len(sub_tasks) : \A k \in 1..Len(sub_tasks[i].depends_on) :
        /\ sub_tasks[i].depends_on[k] < sub_tasks[i].task_id
        /\ \E j \in 1..Len(sub_tasks) : sub_tasks[j].task_id = sub_tasks[i].depends_on[k]

\* C12: decompose_task returns, for question_type entity_identification or
\* fact_retrieval, two sub-tasks with ids 1, 2 in that order, task 1 without a
\* dependency and task 2 depending on task 1 alone; for every other question_type
\* one sub-task with id 1 and no dependency; every dependency names a smaller id
\* of the list; and the list returned is the one appended to task_history.
C12_DecomposeShape ==
    (last.op = "decompose_task") =>
        LET sub_tasks == last.value
        IN  /\ ~last.raised
            /\ IF last.args.question_type \in {"entity_identification", "fact_retrieval"}
               THEN /\ TaskIds(sub_tasks) = <<1, 2>>
                    /\ sub_tasks[1].depends_on = << >>
                    /\ sub_tasks[2].depends_on = <<1>>
               ELSE /\ TaskIds(sub_tasks) = <<1>>
                    /\ sub_tasks[1].depends_on = << >>
            /\ DependenciesWellFounded(sub_tasks)
            /\ sub_tasks[1].query = last.args.original_question
            /\ task_history = << [question |-> last.args.original_question,
                                  sub_tasks |-> sub_tasks] >>

\* C12 witness: a question parse_question classified fact_retrieval was decomposed
\* into two sub-tasks, the second depending on the first.
C12_Witness ==
    /\ DecomposeReturned
    /\ input.op = "parse_question"
    /\ last.args.question_type = "fact_retrieval"
    /\ Len(last.value) = 2
    /\ last.value[2].depends_on = <<1>>

\* The sub-task of the running call with the given id.
SubTaskWithId(id) ==
    CHOOSE t \in {frame.sub_tasks[i] : i \in 1..Len(frame.sub_tasks)} : t.task_id = id
\* The ids of the sub-tasks whose retrieval has completed, in a state of the loop.
Completed == IF "dispatched" \in DOMAIN frame
             THEN {frame.dispatched[i] : i \in 1..Len(frame.dispatched)} ELSE {}
DependenciesOf(task) == {task.depends_on[k] : k \in 1..Len(task.depends_on)}

\* C13: in every step of process_question that hands a sub-task to hybrid_search,
\* every sub-task it depends on has completed its retrieval before the step; and
\* in the list of sub-tasks retrieved so far each one comes after all it depends
\* on, none twice.
C13_DependenciesBeforeDispatch ==
    [][ StageRetrieve =>
            /\ DependenciesOf(frame.sub_tasks[frame.next_task]) \subseteq Completed
            /\ frame.sub_tasks[frame.next_task].task_id \notin Completed
            /\ pc' # "idle" =>
                  /\ frame'.dispatched =
                         Append(frame.dispatched, frame.sub_tasks[frame.next_task].task_id)
                  /\ \A i \in 1..Len(frame'.dispatched) :
                         DependenciesOf(SubTaskWithId(frame'.dispatched[i]))
                             \subseteq {frame'.dispatched[j] : j \in 1..(i - 1)} ]_vars

\* C13 witness: the retrieval loop has finished a two-task plan, task 1 first and
\* then task 2, which depends on it.
C13_Witness ==
    /\ pc = "dedup"
    /\ frame.dispatched = <<1, 2>>
    /\ frame.sub_tasks[2].depends_on = <<1>>
    /\ frame.all_retrieved_docs # << >>

\* A step in which a hybrid_search call completes: the record of the last call
\* becomes that of a hybrid_search, with other arguments or another outcome.
HybridSearchStep ==
    /\ last'.op = "hybrid_search"
    /\ (last.op # "hybrid_search" \/ last'.args # last.args \/ last'.raised # last.raised)

\* C14: a hybrid_search on a retriever whose initialize has not been called raises
\* the not-ready error ("Index not built...") and leaves documents, index_built
\* and model_loaded as they were; a hybrid_search on a retriever initialized with
\* the empty list returns the empty list and raises nothing, for every top_k.
C14_NotReadyOrEmpty ==
    [][ HybridSearchStep =>
            /\ last'.args.documents = documents
            /\ ~index_built =>
                  /\ last'.raised
                  /\ last'.value = ExcIndexNotBuilt
                  /\ UNCHANGED << documents, index_built, model_loaded >>
            /\ (index_built /\ documents = << >>) =>
                  /\ ~last'.raised
                  /\ last'.value = << >>
                  /\ UNCHANGED << documents, index_built, model_loaded >> ]_vars

\* C14 witness: a search with top_k >= 1 on a retriever initialized with the empty
\* list has returned the empty list.
C14_Witness ==
    /\ SearchReturned
    /\ index_built
    /\ documents = << >>
    /\ last.args.documents = << >>
    /\ last.args.top_k >= 1
    /\ last.value = << >>

\* A step in which a store_triples call completes.
StoreTriplesStep == calls' = calls + 1 /\ last'.op = "store_triples"

\* C15: a store_triples call on a graph builder whose initialize_graph has not been
\* called (directly or by build_graph_from_documents) raises the not-initialized
\* error, issues no statement and leaves the graph store and the builder as they
\* were; on an initialized builder it does not raise.
C15_StoreBeforeInitializeFails ==
    [][ StoreTriplesStep =>
            IF ~graph_initialized
            THEN /\ last'.raised
                 /\ last'.value = ExcGraphNotInitialized
                 /\ UNCHANGED << graph, issued, graph_initialized >>
            ELSE ~last'.raised ]_vars

\* C15 witness: store_triples was called with triples before initialize_graph: it
\* raised, and the store is empty.
C15_Witness ==
    /\ last.op = "store_triples"
    /\ last.raised
    /\ Len(last.args) >= 1
    /\ ~graph_initialized
    /\ graph = EmptyGraph
    /\ issued = << >>

ReasonerQueryOps ==
    {"execute_cypher_query", "find_path_between_entities", "perform_multi_hop_reasoning"}
\* A step in which a query operation of the reasoner, called within its
\* precondition (perform_multi_hop_reasoning with one entity at least), completes.
ReasonerQueryStep ==
    /\ calls' = calls + 1
    /\ pc' = "idle"
    /\ system_initialized' = system_initialized
    /\ last'.op \in ReasonerQueryOps
    /\ last'.op = "perform_multi_hop_reasoning" => last'.args.entities # << >>

\* C16 as stated: each of the three query operations, issued on a reasoner that is
\* not connected, connects it and answers without raising.
C16_QueriesAutoConnect ==
    [][ (ReasonerQueryStep /\ ~graph_connected) =>
            (graph_connected' /\ ~last'.raised) ]_vars

\* C16 amended: issued on a reasoner that is not connected,
\* find_path_between_entities and perform_multi_hop_reasoning (with one entity at
\* least) connect it and answer without raising, while execute_cypher_query raises
\* ValueError("Not connected to graph..."), executes nothing and leaves the
\* reasoner unconnected; on a connected reasoner none of the three raises.
C16_OnlyPathAndReasoningAutoConnect ==
    [][ ReasonerQueryStep =>
            IF ~graph_connected /\ last'.op = "execute_cypher_query"
            THEN /\ last'.raised
                 /\ last'.value = ExcNotConnected
                 /\ last'.executed = << >>
                 /\ ~graph_connected'
            ELSE /\ graph_connected'
                 /\ ~last'.raised
                 /\ Len(last'.executed) = 1 ]_vars

\* C16 witness: perform_multi_hop_reasoning, the first query made on a reasoner no
\* agent has set up, answered and left the reasoner connected.
C16_Witness ==
    /\ last.op = "perform_multi_hop_reasoning"
    /\ ~last.raised
    /\ calls = 1
    /\ ~system_initialized
    /\ graph_connected

ReasoningReturned == last.op = "perform_multi_hop_reasoning" /\ ~last.raised

\* C17: perform_multi_hop_reasoning with two entities or more returns a
\* path_finding result whose source and target are the first and the last entity,
\* from one shortest-path query between them of 1 to 3 hops; with exactly one
\* entity it returns an entity_lookup result for it from one node query; and the
\* reasoning result of process_question, whose questions carry no entities, is the
\* fallback result (confidence 0.6, below either reasoner confidence), not a
\* result of the reasoner.
C17_DispatchOnEntityCount ==
    /\ ReasoningReturned =>
           LET entities == last.args.entities
               n == Len(last.args.entities)
           IN  /\ n >= 1
               /\ n >= 2 =>
                     /\ last.value.reasoning_type = "path_finding"
                     /\ last.value.source_entity = entities[1]
                     /\ last.value.target_entity = entities[n]
                     /\ Len(last.executed) = 1
                     /\ last.executed[1].match = "shortestPath"
                     /\ last.executed[1].source = entities[1]
                     /\ last.executed[1].target = entities[n]
                     /\ last.executed[1].max_hops = 3
               /\ n = 1 =>
                     /\ last.value.reasoning_type = "entity_lookup"
                     /\ last.value.entity = entities[1]
                     /\ Len(last.executed) = 1
                     /\ last.executed[1].match = "node"
                     /\ last.executed[1].source = entities[1]
    /\ (last.op = "perform_multi_hop_reasoning" /\ last.raised) =>
           last.args.entities = << >>
    /\ "reasoning_result" \in DOMAIN frame =>
           /\ frame.parsed_question.entities = << >>
           /\ frame.reasoning_result.reasoning_type = "fallback"
           /\ RatGT(Milli(700), frame.reasoning_result.confidence)
           /\ DOMAIN frame.reasoning_result = {"reasoning_type", "answer", "confidence"}

\* C17 witness: three entities, the last differing from the first two, gave a
\* path_finding result from the first to the third.
C17_Witness ==
    /\ ReasoningReturned
    /\ Len(last.args.entities) = 3
    /\ last.args.entities[3] \notin {last.args.entities[1], last.args.entities[2]}
    /\ last.value.reasoning_type = "path_finding"
    /\ last.value.target_entity = last.args.entities[3]

\* C18: every path_finding result carries at least one path and the confidence
\* 0.85; a path_finding result without a path, which would need a lower
\* confidence, does not occur.
C18_PathFoundConfidence ==
    (ReasoningReturned /\ last.value.reasoning_type = "path_finding") =>
        /\ Len(last.value.path_results) >= 1
        /\ IF Len(last.value.path_results) >= 1
           THEN last.value.confidence = Milli(850)
           ELSE RatGT(Milli(850), last.value.confidence)

\* C18 witness: a path search between Albert Einstein and Princeton University
\* found its path, at confidence 0.85.
C18_Witness ==
    /\ ReasoningReturned
    /\ last.value.reasoning_type = "path_finding"
    /\ last.value.path_results =
           << [result |-> "Albert Einstein worked at Princeton University"] >>
    /\ last.value.confidence = Milli(850)

MathReturned == last.op = "validate_mathematical_computation" /\ ~last.raised
\* The value of a well-formed expression, computed from its operands.
ValueOf(expression) ==
    CASE expression.form = "lit" -> Rat(expression.a, 1)
      [] expression.form = "add" -> Rat(expression.a + expression.b, 1)
      [] OTHER -> Rat(expression.a, expression.b)
\* Whether eval can evaluate the expression.
Evaluates(expression) ==
    \/ expression.form \in {"lit", "add"}
    \/ (expression.form = "div" /\ expression.b # 0)

\* C19: validate_mathematical_computation always returns and never raises.  When
\* the expression evaluates, is_valid is true and confidence 1.0 if its value
\* equals the expected result, and is_valid false and confidence 0.0 if not; when
\* the evaluation fails (a division by zero, a text that does not parse, an
\* undefined name) the result has is_valid false, confidence 0.0 and an error
\* field.
C19_MathVerdict ==
    (input.op = "validate_mathematical_computation" /\ last.op # "none") =>
        LET expression == last.args.expression
            expected == last.args.expected_result
        IN  /\ MathReturned
            /\ last.value.validation_type = "mathematical"
            /\ IF Evaluates(expression)
               THEN /\ "error" \notin DOMAIN last.value
                    /\ last.value.actual_result = ValueOf(expression)
                    /\ last.value.is_valid <=>
                           (expected.type = "number"
                              /\ expected.value.num * ValueOf(expression).den
                                   = ValueOf(expression).num * expected.value.den)
                    /\ last.value.confidence =
                           (IF last.value.is_valid THEN Rat(1, 1) ELSE Zero)
               ELSE /\ "error" \in DOMAIN last.value
                    /\ ~last.value.is_valid
                    /\ last.value.confidence = Zero

\* C19 witness: a division by zero came back as a result with an error field.
C19_Witness ==
    /\ MathReturned
    /\ last.args.expression.form = "div"
    /\ last.args.expression.b = 0
    /\ "error" \in DOMAIN last.value
    /\ ~last.value.is_valid

\* C20 as stated: every validation call appends the result it returns to
\* validation_history: after n calls the history has n entries, the last of them
\* the result of the last call.
C20_EveryCallAppends ==
    /\ Len(validation_history) = calls
    /\ last.op # "none" => validation_history[Len(validation_history)] = last.value

CrossReturned == last.op = "perform_cross_validation" /\ ~last.raised
\* The number of distinct facts of a list, counting each position whose fact does
\* not occur earlier in the list.
DistinctFacts(facts) ==
    Cardinality({i \in 1..Len(facts) : \A j \in 1..(i - 1) : facts[j] # facts[i]})

\* C21: perform_cross_validation reports consistency_score = distinct facts /
\* facts (0 for the empty list), is_valid iff that is > 0.5, and confidence =
\* min(consistency + 0.3, 1.0): a value in [0, 1] that is never below the
\* consistency; the result is appended to the history.
C21_CrossValidationScore ==
    (input.op = "perform_cross_validation" /\ last.op # "none") =>
        LET n == Len(last.args.facts)
            d == DistinctFacts(last.args.facts)
            score == last.value.consistency_score
            conf == last.value.confidence
        IN  /\ CrossReturned
            /\ IF n = 0 THEN score = Zero ELSE score.num * n = d * score.den
            /\ last.value.is_valid <=> (n > 0 /\ 2 * d > n)
            /\ IF n = 0 THEN conf = Milli(300)
               ELSE IF 10 * d + 3 * n >= 10 * n THEN conf = Rat(1, 1)
               ELSE conf.num * 10 * n = (10 * d + 3 * n) * conf.den
            /\ conf.num <= conf.den
            /\ ~RatGT(score, conf)
            /\ validation_history = <<last.value>>

\* C21 witness: three facts, two of them distinct, scored 2/3: valid, with the
\* confidence 2/3 + 0.3.
C21_Witness ==
    /\ CrossReturned
    /\ Len(last.args.facts) = 3
    /\ last.value.consistency_score = Rat(2, 3)
    /\ last.value.is_valid
    /\ last.value.confidence = Rat(29, 30)

\* De-duplication of documents by doc_id: the first document of each doc_id.
RECURSIVE FirstOfEachDocId(_, _)
FirstOfEachDocId(docs, seen_ids) ==
    IF docs = << >> THEN << >>
    ELSE IF DocId(Head(docs)) \in seen_ids THEN FirstOfEachDocId(Tail(docs), seen_ids)
    ELSE <<Head(docs)>> \o FirstOfEachDocId(Tail(docs), seen_ids \cup {DocId(Head(docs))})
\* The documents retrieved over the sub-tasks: one hybrid_search per sub-task.
RECURSIVE RetrievedOver(_)
RetrievedOver(sub_tasks) ==
    IF sub_tasks = << >> THEN << >>
    ELSE DocumentsOf(hybrid_results(documents, config.top_k_retrieval))
             \o RetrievedOver(Tail(sub_tasks))
\* The step in which process_question returns the Answer it synthesized.
SynthesizeStep == pc = "synthesize" /\ pc' = "idle" /\ last'.value.answer_type # "error"

\* C22: in every step that returns a synthesized Answer, evidence is the first
\* three of the documents retrieved over all sub-tasks de-duplicated by doc_id in
\* first-seen order: at most three, no two of one doc_id, each doc_id of a
\* retrieved document among them or cut off by the limit; and reasoning_steps is
\* [reasoning_result, validation_result].
C22_EvidenceAndSteps ==
    [][ SynthesizeStep =>
            LET retrieved == RetrievedOver(frame.sub_tasks)
                evidence == last'.value.evidence
            IN  /\ frame.all_retrieved_docs = retrieved
                /\ evidence = Prefix(FirstOfEachDocId(retrieved, {}), 3)
                /\ Len(evidence) <= 3
                /\ \A i, j \in 1..Len(evidence) :
                       i # j => DocId(evidence[i]) # DocId(evidence[j])
                /\ last'.value.reasoning_steps =
                       <<frame.reasoning_result, frame.validation_result>>
                /\ last'.value.reasoning_steps[2].validation_type = "reasoning_chain" ]_vars

\* C22 witness: an Answer with three evidence documents, from a two-task plan over
\* a list of five documents that holds two documents of one doc_id.
C22_Witness ==
    /\ PQReturned
    /\ last.value.answer_type = "entity_identification"
    /\ Len(last.value.evidence) = 3
    /\ Len(documents) = 5
    /\ \E i, j \in 1..5 : documents[i] # documents[j] /\ DocId(documents[i]) = DocId(documents[j])
    /\ config.top_k_retrieval >= 4

\* Whether results is ordered by score, non-increasing.
ScoreNonIncreasing(results) ==
    \A i \in 1..(Len(results) - 1) : ~RatGT(results[i + 1].score, results[i].score)
\* Whether, among results of equal score, no dense result precedes a lexical one.
TiesFavourLexical(results) ==
    \A i, j \in 1..Len(results) :
        (i < j /\ results[i].score = results[j].score)
            => ~(results[i].source = "contriever" /\ results[j].source = "bm25")
\* The first result of results with the given doc_id.
FirstWithDocId(results, id) ==
    results[CHOOSE i \in 1..Len(results) :
                /\ results[i].doc_id = id
                /\ \A j \in 1..(i - 1) : results[j].doc_id # id]

\* C24: every hybrid_search that returns, returns its results ordered by score,
\* non-increasing; a returned result whose doc_id is in both rankings is the
\* first lexical (bm25) entry of that doc_id; and ties favour lexical: in the
\* returned list, and in the sorted combined list, where a lexical and a dense
\* result of equal score do meet.
C24_SortedLexicalKept ==
    SearchReturned =>
        LET lexical == bm25_search(last.args.documents, last.args.top_k)
            dense == contriever_search(last.args.documents, last.args.top_k)
            combined == CombinedResults(last.args.documents, last.args.top_k)
        IN  /\ ScoreNonIncreasing(last.value)
            /\ \A i \in 1..Len(last.value) :
                   last.value[i].doc_id \in DocIdsOf(lexical) \cap DocIdsOf(dense)
                       => last.value[i] = FirstWithDocId(lexical, last.value[i].doc_id)
            /\ TiesFavourLexical(last.value)
            /\ ScoreNonIncreasing(SortByScoreDesc(combined))
            /\ TiesFavourLexical(SortByScoreDesc(combined))

\* C24 witness: a search returned two results of different scores, over documents
\* that both rankings ranked, the combined list holding a lexical and a dense
\* result of equal score.
C24_Witness ==
    /\ SearchReturned
    /\ Len(last.value) = 2
    /\ RatGT(last.value[1].score, last.value[2].score)
    /\ last.value[2].doc_id
           \in DocIdsOf(contriever_search(last.args.documents, last.args.top_k))
    /\ \E i, j \in 1..(2 * Len(last.value)) :
           LET combined == CombinedResults(last.args.documents, last.args.top_k)
           IN  /\ combined[i].source = "bm25" /\ combined[j].source = "contriever"
               /\ combined[i].score = combined[j].score

\* C30: every result of every hybrid_search that returns has source "bm25": both
\* rankers rank the same documents, so every dense result is dropped as a
\* duplicate of a lexical one.
C30_OnlyLexicalResults ==
    SearchReturned =>
        /\ \A i \in 1..Len(last.value) : last.value[i].source = "bm25"
        /\ DocIdsOf(contriever_search(last.args.documents, last.args.top_k))
               = DocIdsOf(bm25_search(last.args.documents, last.args.top_k))
        /\ DedupByDocId(CombinedResults(last.args.documents, last.args.top_k))
               = DedupByDocId(bm25_search(last.args.documents, last.args.top_k))

\* C30 witness: a search over two documents of different doc_ids returned both,
\* the dense ranking having ranked both as well.
C30_Witness ==
    /\ SearchReturned
    /\ Len(last.value) = 2
    /\ Len(contriever_search(last.args.documents, last.args.top_k)) = 2
    /\ last.value[1].doc_id # last.value[2].doc_id
    /\ last.value[1].source = "bm25"

\* A step in which a process_questions_batch call raises to its caller.
BatchRaises ==
    /\ last'.op = "process_questions_batch"
    /\ last'.raised
    /\ ~batch'.active
    /\ \/ batch.active
       \/ (calls' = calls + 1 /\ system_initialized' = system_initialized)
\* Whether a returned batch call holds one Answer per question_data, in order:
\* the i-th carries the i-th id and is the error Answer or an Answer of the type
\* of the i-th question.
OnePerQuestion(call) ==
    /\ Len(call.value) = Len(call.args.questions)
    /\ \A i \in 1..Len(call.value) :
           LET question_data == call.args.questions[i]
           IN  /\ IsStructuredAnswer(call.value[i])
               /\ call.value[i].question_id = DictGet(question_data, "id", "unknown")
               /\ call.value[i].answer_type \in
                      {"error",
                       parse_question(DictGet(question_data, "question", << >>)).question_type}

\* C23 as stated: every process_questions_batch call returns one result per
\* question, in input order.
C23_BatchAlwaysReturnsAll ==
    last.op = "process_questions_batch" => (~last.raised /\ OnePerQuestion(last))

\* C23: every process_questions_batch call that returns, returns one result per
\* question, in input order, whichever questions failed; a call raises only on an
\* agent that is not initialized, with a non-empty list, and what it raises is the
\* ValueError of the guard of process_question.
C23_InitializedBatchReturnsAll ==
    /\ [](last.op = "process_questions_batch" =>
              IF last.raised
              THEN last.value.msg = ExcNotInitialized.msg /\ last.args.questions # << >>
              ELSE OnePerQuestion(last))
    /\ [](batch.active => system_initialized)
    /\ [][BatchRaises => ~system_initialized]_vars

\* C23 witness: a batch of two returned two results, the first the error Answer
\* of a question that failed, the second the Answer of the question after it.
C23_Witness ==
    /\ last.op = "process_questions_batch"
    /\ ~last.raised
    /\ Len(last.value) = 2
    /\ last.value[1].answer_type = "error"
    /\ last.value[2].answer_type # "error"
    /\ last.value[1].question_id # last.value[2].question_id

\* The order of the stages of process_question: each stage and the one after it
\* (Step 6, the executor step, stands between validation and synthesis).
StageOrder ==
    { <<"idle", "decompose">>, <<"decompose", "retrieve">>, <<"retrieve", "dedup">>,
      <<"dedup", "build">>, <<"build", "reason">>, <<"reason", "validate">>,
      <<"validate", "execute">>, <<"execute", "synthesize">>, <<"synthesize", "idle">> }
\* The locals each stage finds when it starts: the outputs of the stages before it.
OutputsBefore(stage) ==
    CASE stage = "idle" -> {}
      [] stage = "decompose" -> {"question", "question_id"}
      [] stage \in {"retrieve", "dedup"} -> {"parsed_question", "sub_tasks", "all_retrieved_docs"}
      [] stage = "build" -> {"sub_tasks", "all_retrieved_docs", "unique_docs"}
      [] stage = "reason" -> {"unique_docs", "triples"}
      [] stage = "validate" -> {"triples", "reasoning_result"}
      [] OTHER -> {"reasoning_result", "validation_result"}
\* The output of the stage at pc, absent until the stage has run.
OutputOf(stage) ==
    CASE stage = "decompose" -> "sub_tasks"
      [] stage \in {"retrieve", "dedup"} -> "unique_docs"
      [] stage = "build" -> "triples"
      [] stage = "reason" -> "reasoning_result"
      [] OTHER -> "validation_result"
\* A step in which the running stage fails.
StageFails == pc # "idle" /\ pc' = "idle" /\ last'.value.answer_type = "error"

\* C25: a process_question call moves from each stage to the next one of the
\* order only (or out of the pipeline when the stage fails); a stage starts with
\* the outputs of the stages before it present and its own still absent, retrieval
\* having served every sub-task before de-duplication starts; and a failing stage
\* ends the call at once, with no effect of any later stage.
C25_StagesInOrder ==
    /\ [][ pc' # pc => (<<pc, pc'>> \in StageOrder \/ StageFails) ]_vars
    /\ [](/\ OutputsBefore(pc) \subseteq DOMAIN frame
          /\ pc \in {"decompose", "retrieve", "dedup", "build", "reason", "validate"}
                 => OutputOf(pc) \notin DOMAIN frame
          /\ pc = "retrieve" => frame.next_task <= Len(frame.sub_tasks)
          /\ pc = "dedup" => Len(frame.dispatched) = Len(frame.sub_tasks))
    /\ [][ StageFails =>
               /\ frame' = IdleFrame
               /\ task_history' = task_history
               /\ validation_history' = validation_history
               /\ graph' = graph /\ issued' = issued
               /\ graph_connected' = graph_connected ]_vars

\* C25 witness: a call over a two-task plan went through every stage and
\* returned its Answer.
C25_Witness ==
    /\ PQReturned
    /\ last.value.answer_type = "entity_identification"
    /\ Len(task_history) = 1
    /\ Len(task_history[1].sub_tasks) = 2
    /\ Len(validation_history) = 1
    /\ last.value.reasoning_steps = <<FallbackResult, validation_history[1]>>
    /\ pc = "idle"

\* Whether a value call_api returned is a failure value: a string that starts
\* with "Error:".
IsFailureValue(v) == v.some /\ Len(v.value) >= 1 /\ v.value[1] = "Error: "
\* Whether a value call_api returned is the answer of a reply.
IsReplyAnswer(v) ==
    v.some /\ \E reply \in Replies :
                  ~reply.raised /\ v.value = DictGet(reply.json, "answer", << >>)

\* C26: every call_api call with max_retries >= 0 comes back without raising,
\* having sent at most max_retries requests, with the answer of the reply that
\* succeeded or else with a failure value, a string starting with "Error:".
C26_AnswerOrFailureValue ==
    (last.op = "call_api" /\ last.args.max_retries >= 0) =>
        /\ ~last.raised
        /\ last.attempts <= last.args.max_retries
        /\ IsReplyAnswer(last.value) \/ IsFailureValue(last.value)

\* C27: after every process_question(q) of the console, the history file holds
\* at most 50 entries and its newest entry, the first as in the list in memory,
\* is the entry for q.
C27_NewestEntryPersisted ==
    last.op = "console_process_question" =>
        /\ history_file.some
        /\ Len(history_file.value) <= HistoryCap
        /\ history[1].question = last.args.question
        /\ history_file.value # << >>
        /\ history_file.value[1] = history[1]

\* C28: parse_question finds no entity in any question, so every Answer that
\* process_question returns without an error carries the fallback result
\* (confidence 0.6) as its first reasoning step, not a result of the reasoner; its
\* chain validation is neither consistent nor valid and has confidence 0, and the
\* Answer has confidence 0.0 and validation_status "needs_review".
C28_AlwaysFallback ==
    /\ \A question \in Questions :
           parse_question(question).entities = << >>
    /\ "parsed_question" \in DOMAIN frame => frame.parsed_question.entities = << >>
    /\ "reasoning_result" \in DOMAIN frame => frame.reasoning_result = FallbackResult
    /\ (PQReturned /\ last.value.answer_type # "error") =>
           /\ last.value.reasoning_steps[1] = FallbackResult
           /\ last.value.reasoning_steps[1].confidence = Milli(600)
           /\ last.value.reasoning_steps[2] = validate_reasoning_chain(<<FallbackResult>>)
           /\ ~last.value.reasoning_steps[2].is_consistent
           /\ ~last.value.reasoning_steps[2].is_valid
           /\ last.value.reasoning_steps[2].confidence = Zero
           /\ last.value.confidence = Zero
           /\ last.value.validation_status = "needs_review"

\* C28 witness: a "who" question over a document that names two entities came
\* back with an Answer that is not the error Answer.
C28_Witness ==
    /\ PQReturned
    /\ last.args.question = QWho
    /\ last.value.answer_type = "entity_identification"
    /\ documents = <<DocEinstein>>
    /\ graph.edges # EmptyGraph.edges
    /\ last.value.reasoning_steps[1].reasoning_type = "fallback"
    /\ last.value.validation_status = "needs_review"

\* The chain validation of the one-element chain of a reasoning result of
\* confidence r, as the claim states it.
ChainOfOne(validation_result, r) ==
    /\ validation_result.is_consistent <=> RatGT(r, Milli(700))
    /\ validation_result.is_valid <=> RatGT(r, Milli(750))
    /\ validation_result.confidence = (IF RatGT(r, Milli(700)) THEN r ELSE Zero)

\* C29: for a reasoning result of any confidence r, the validation of the chain
\* [reasoning_result] has confidence r when r > 0.7 and 0 otherwise, the confidence
\* handed to generate_answer is r * r or 0 (the Answer reports it rounded to three
\* places), and an Answer with validation_status "validated" has a chain
\* validation with is_consistent and is_valid true.
C29_ValidatedImpliesValid ==
    /\ "validation_result" \in DOMAIN frame =>
           LET r == frame.reasoning_result.confidence
           IN  /\ ChainOfOne(frame.validation_result, r)
               /\ FinalConfidence(frame.reasoning_result, frame.validation_result)
                      = (IF RatGT(r, Milli(700)) THEN RatMul(r, r) ELSE Zero)
    /\ (PQReturned /\ last.value.answer_type # "error") =>
           LET r == last.value.reasoning_steps[1].confidence
               validation_result == last.value.reasoning_steps[2]
           IN  /\ ChainOfOne(validation_result, r)
               /\ last.value.confidence
                      = Round3(IF RatGT(r, Milli(700)) THEN RatMul(r, r) ELSE Zero)
               /\ last.value.validation_status = "validated" <=>
                      (RatGT(r, Milli(700)) /\ RatGT(RatMul(r, r), Milli(700)))
               /\ last.value.validation_status = "validated" =>
                      (validation_result.is_consistent /\ validation_result.is_valid)

\* C29 witness: a reasoning result of confidence 0.9 came back in an Answer of
\* confidence 0.81, validated, its chain validation consistent and valid.
C29_Witness ==
    /\ PQReturned
    /\ last.value.reasoning_steps[1].confidence = Rat(9, 10)
    /\ last.value.reasoning_steps[2].confidence = Rat(9, 10)
    /\ last.value.confidence = Rat(81, 100)
    /\ last.value.validation_status = "validated"
    /\ last.value.reasoning_steps[2].is_valid

====
